---- MODULE Spec2Model ----
(***************************************************************************)
(* Model of the virgo-snana photometry pipeline: the parser chain and the  *)
(* sanitizer of parsers.py, and process_supernova with the batch driver of *)
(* process_data.py.                                                        *)
(*                                                                         *)
(* Representation.  A number is written as its decimal text ("12.3"); the  *)
(* float specials are "nan", "inf" and "-inf".  A band label is a sequence *)
(* of tokens: " " is a run of whitespace, "'" and "\"" are quote marks,    *)
(* "(" and ")" are parentheses, any other token is a run of ordinary       *)
(* characters; <<" ", "V", " ">> is the text ' V '.  A file is a layout    *)
(* (fmt), the set of column names of its header (cols) and its data rows.  *)
(***************************************************************************)
EXTENDS Integers, Sequences, FiniteSets, TLC

VARIABLES batch, obj, sn_info, pc, fileIdx, curFile, invoked,
          photometry_tables, warnings, uniqueBefore, unmappedBands, df,
          lookups, zp_system_str, final_table, status, written,
          sanPc, sanIn, sanMap, sanOut

vars == <<batch, obj, sn_info, pc, fileIdx, curFile, invoked,
          photometry_tables, warnings, uniqueBefore, unmappedBands, df,
          lookups, zp_system_str, final_table, status, written,
          sanPc, sanIn, sanMap, sanOut>>

(* ------------------------------ bounds --------------------------------- *)
MaxRows == 2
MaxFiles == 2
NumObjects == 2
MaxSanRows == 2

(* ----------------------- process_data.py constants --------------------- *)
BAND_MAP ==
    (<<"U">> :> "bessellux") @@ (<<"B">> :> "bessellb") @@ (<<"V">> :> "bessellv") @@
    (<<"R">> :> "bessellr") @@ (<<"I">> :> "besselli") @@
    (<<"pg">> :> "standard::b") @@ (<<"pv">> :> "standard::v") @@
    (<<"m_v">> :> "bessellv") @@ (<<"m_pg">> :> "standard::b") @@
    (<<"B_max">> :> "bessellb") @@ (<<"blue">> :> "bessellb") @@
    (<<"red">> :> "bessellr") @@
    (<<"'", "blue", "'">> :> "bessellb") @@ (<<"'", "red", "'">> :> "bessellr") @@
    (<<"UNKNOWN">> :> "standard::u") @@ (<<"C">> :> "standard::b")

KNOWN_BANDS == {
    "skymapperr", "lsstu", "csphs", "cspi", "ps1::z", "sdssu", "ps1::i", "f250m", "sdss::g",
    "keplercam::v", "f1280w", "uvf606w", "f1500w", "gotob", "sdssz", "f162m", "f210m",
    "bessellb", "nicmos2::f110w", "2massks", "f850lp", "2massj", "uvf775w", "ps1::w", "f560w",
    "gaia::grp", "f140w", "ztf::g", "f360m", "uvot::uvw2", "f098m", "lsstz", "f127m", "f182m",
    "atlasc", "f090w", "ztfr", "nicf160w", "sdss::i", "hsc::g", "hsc::r", "megacam6::z",
    "f763m", "f160w", "f070w", "hsc::r2", "galex::fuv", "f430m", "hsc::z", "cspjs", "f438w",
    "sdss::r", "uvot::u", "f2100w", "f689m", "nicf110w", "f1800w", "f350lp", "cspu",
    "acswf::f775w", "cspv3009", "standard::v", "skymapperz", "f335m", "f2550w",
    "keplercam::us", "f625w", "f184", "f218w", "acswf::f606w", "lsstg", "desr", "gotog",
    "swope2::h", "f356w", "swope2::v1", "hsc::y", "swope2::i", "f480m", "swope2::g", "f606w",
    "f105w", "swope2::v2", "ztfg", "sdssi", "besselli", "megacam6::i", "desg", "f225w",
    "f2300c", "ps1::open", "f555w", "f140m", "cspb", "sdss::u", "ztf::r", "acswf::f850lp",
    "uvf555w", "ztf::i", "4shooter2::us", "f845m", "f770w", "f153m", "cspk", "lssti", "desi",
    "f1550c", "f129", "2massh", "cspr", "f390w", "f125w", "csphd", "swope2::r",
    "nicmos2::f160w", "sdss::z", "f300x", "bessellr", "skymapperg", "f213", "galex::nuv",
    "sdssg", "cspyd", "swope2::u", "cspg", "desz", "4shooter2::r", "f336w", "gaia::grvs",
    "f150w", "megacam6::i2", "f300m", "f087", "ps1::r", "hsc::i", "uvot::uvm2", "lssty",
    "swope2::j", "4shooter2::b", "gaia::g", "standard::r", "megacam6::g", "f275w", "ztfi",
    "swope2::b", "cspv3014", "standard::u", "uvot::white", "desu", "uvot::b", "atlaso",
    "f110w", "keplercam::b", "f146", "cspys", "f435w", "f115w", "sdssr", "gotol", "tess",
    "keplercam::i", "f460m", "cspv9844", "f1065c", "f1140c", "desy", "4shooter2::i", "f444w",
    "hsc::i2", "skymapperi", "ps1::y", "f200w", "standard::i", "kepler", "f1130w",
    "4shooter2::v", "uvf850lp", "standard::b", "f139m", "f062", "megacam6::r", "f158",
    "ps1::g", "swope2::y", "uvf814w", "f1000w", "f475w", "f106", "uvot::v", "f775w", "uvf625w",
    "gotor", "lsstr", "keplercam::r", "gaia::gbp", "uvf475w", "skymapperu", "cspjd", "f410m",
    "bessellv", "bessellux", "uvot::uvw1", "swope2::v", "f277w"
}

(* The magnitude systems sncosmo.get_magsystem resolves; any other name    *)
(* makes it raise.                                                          *)
MagSystemRegistry == {"vega", "ab", "bd17"}

(* ------------------------------- strings ------------------------------- *)
\* str.lower() folds every letter that has a lower-case form, not only A to Z.
\* UpperCase and LowerCase hold, position by position, the 562 letters and
\* forms that a string of this module can be made of (a string here can hold
\* the characters up to U+00FF and, above them, those whose code ends in a
\* byte of 80 to FF).  The capital sigma is in the table with its usual form;
\* Lower gives it the final form where str.lower() does.
UpperCase ==
    <<
      "A", "B", "C", "D", "E", "F", "G", "H", "I", "J", "K", "L",
      "M", "N", "O", "P", "Q", "R", "S", "T", "U", "V", "W", "X",
      "Y", "Z", "À", "Á", "Â", "Ã", "Ä", "Å", "Æ", "Ç", "È", "É",
      "Ê", "Ë", "Ì", "Í", "Î", "Ï", "Ð", "Ñ", "Ò", "Ó", "Ô", "Õ",
      "Ö", "Ø", "Ù", "Ú", "Û", "Ü", "Ý", "Þ", "Ƃ", "Ƅ", "Ƈ", "Ƌ",
      "Ǝ", "Ƒ", "Ƙ", "Ơ", "Ƣ", "Ƥ", "Ʀ", "Ƨ", "Ʃ", "Ƭ", "Ʈ", "Ư",
      "Ʊ", "Ʋ", "Ƴ", "Ƶ", "Ʒ", "Ƹ", "Ƽ", "Ǆ", "ǅ", "Ǉ", "ǈ", "Ǌ",
      "ǋ", "Ǎ", "Ǐ", "Ǒ", "Ǔ", "Ǖ", "Ǘ", "Ǚ", "Ǜ", "Ǟ", "Ǡ", "Ǣ",
      "Ǥ", "Ǧ", "Ǩ", "Ǫ", "Ǭ", "Ǯ", "Ǳ", "ǲ", "Ǵ", "Ƕ", "Ƿ", "Ǹ",
      "Ǻ", "Ǽ", "Ǿ", "Ά", "Έ", "Ή", "Ί", "Ό", "Ύ", "Ώ", "Α", "Β",
      "Γ", "Δ", "Ε", "Ζ", "Η", "Θ", "Ι", "Κ", "Λ", "Μ", "Ν", "Ξ",
      "Ο", "Π", "Ρ", "Σ", "Τ", "Υ", "Φ", "Χ", "Ψ", "Ω", "Ϊ", "Ϋ",
      "Ϗ", "Ϙ", "Ϛ", "Ϝ", "Ϟ", "Ϡ", "Ϣ", "Ϥ", "Ϧ", "Ϩ", "Ϫ", "Ϭ",
      "Ϯ", "ϴ", "Ϸ", "Ϲ", "Ϻ", "Ҁ", "Ҋ", "Ҍ", "Ҏ", "Ґ", "Ғ", "Ҕ",
      "Җ", "Ҙ", "Қ", "Ҝ", "Ҟ", "Ҡ", "Ң", "Ҥ", "Ҧ", "Ҩ", "Ҫ", "Ҭ",
      "Ү", "Ұ", "Ҳ", "Ҵ", "Ҷ", "Ҹ", "Һ", "Ҽ", "Ҿ", "Ӏ", "Ӂ", "Ӄ",
      "Ӆ", "Ӈ", "Ӊ", "Ӌ", "Ӎ", "Ӑ", "Ӓ", "Ӕ", "Ӗ", "Ә", "Ӛ", "Ӝ",
      "Ӟ", "Ӡ", "Ӣ", "Ӥ", "Ӧ", "Ө", "Ӫ", "Ӭ", "Ӯ", "Ӱ", "Ӳ", "Ӵ",
      "Ӷ", "Ӹ", "Ӻ", "Ӽ", "Ӿ", "Ꮀ", "Ꮁ", "Ꮂ", "Ꮃ", "Ꮄ", "Ꮅ", "Ꮆ",
      "Ꮇ", "Ꮈ", "Ꮉ", "Ꮊ", "Ꮋ", "Ꮌ", "Ꮍ", "Ꮎ", "Ꮏ", "Ꮐ", "Ꮑ", "Ꮒ",
      "Ꮓ", "Ꮔ", "Ꮕ", "Ꮖ", "Ꮗ", "Ꮘ", "Ꮙ", "Ꮚ", "Ꮛ", "Ꮜ", "Ꮝ", "Ꮞ",
      "Ꮟ", "Ꮠ", "Ꮡ", "Ꮢ", "Ꮣ", "Ꮤ", "Ꮥ", "Ꮦ", "Ꮧ", "Ꮨ", "Ꮩ", "Ꮪ",
      "Ꮫ", "Ꮬ", "Ꮭ", "Ꮮ", "Ꮯ", "Ꮰ", "Ꮱ", "Ꮲ", "Ꮳ", "Ꮴ", "Ꮵ", "Ꮶ",
      "Ꮷ", "Ꮸ", "Ꮹ", "Ꮺ", "Ꮻ", "Ꮼ", "Ꮽ", "Ꮾ", "Ꮿ", "Ᏸ", "Ᏹ", "Ᏺ",
      "Ᏻ", "Ᏼ", "Ᏽ", "Ა", "Ბ", "Გ", "Დ", "Ე", "Ვ", "Ზ", "Თ", "Ი",
      "Კ", "Ლ", "Მ", "Ნ", "Ო", "Პ", "Ჟ", "Რ", "Ს", "Ტ", "Უ", "Ფ",
      "Ქ", "Ღ", "Ყ", "Შ", "Ჩ", "Ც", "Ძ", "Წ", "Ჭ", "Ხ", "Ჯ", "Ჰ",
      "Ჱ", "Ჲ", "Ჳ", "Ჴ", "Ჵ", "Ჶ", "Ჷ", "Ჸ", "Ჹ", "Ჺ", "Ჽ", "Ჾ",
      "Ჿ", "Ẁ", "Ẃ", "Ẅ", "Ẇ", "Ẉ", "Ẋ", "Ẍ", "Ẏ", "Ẑ", "Ẓ", "Ẕ",
      "ẞ", "Ạ", "Ả", "Ấ", "Ầ", "Ẩ", "Ẫ", "Ậ", "Ắ", "Ằ", "Ẳ", "Ẵ",
      "Ặ", "Ẹ", "Ẻ", "Ẽ", "Ế", "Ề", "Ể", "Ễ", "Ệ", "Ỉ", "Ị", "Ọ",
      "Ỏ", "Ố", "Ồ", "Ổ", "Ỗ", "Ộ", "Ớ", "Ờ", "Ở", "Ỡ", "Ợ", "Ụ",
      "Ủ", "Ứ", "Ừ", "Ử", "Ữ", "Ự", "Ỳ", "Ỵ", "Ỷ", "Ỹ", "Ỻ", "Ỽ",
      "Ỿ", "ᾈ", "ᾉ", "ᾊ", "ᾋ", "ᾌ", "ᾍ", "ᾎ", "ᾏ", "ᾘ", "ᾙ", "ᾚ",
      "ᾛ", "ᾜ", "ᾝ", "ᾞ", "ᾟ", "ᾨ", "ᾩ", "ᾪ", "ᾫ", "ᾬ", "ᾭ", "ᾮ",
      "ᾯ", "Ᾰ", "Ᾱ", "ᾼ", "ῌ", "Ῐ", "Ῑ", "Ῠ", "Ῡ", "Ῥ", "ῼ", "Ↄ",
      "Ⓐ", "Ⓑ", "Ⓒ", "Ⓓ", "Ⓔ", "Ⓕ", "Ⓖ", "Ⓗ", "Ⓘ", "Ⓙ", "Ⓚ", "Ⓛ",
      "Ⓜ", "Ⓝ", "Ⓞ", "Ⓟ", "Ⓠ", "Ⓡ", "Ⓢ", "Ⓣ", "Ⓤ", "Ⓥ", "Ⓦ", "Ⓧ",
      "Ⓨ", "Ⓩ", "Ⲁ", "Ⲃ", "Ⲅ", "Ⲇ", "Ⲉ", "Ⲋ", "Ⲍ", "Ⲏ", "Ⲑ", "Ⲓ",
      "Ⲕ", "Ⲗ", "Ⲙ", "Ⲛ", "Ⲝ", "Ⲟ", "Ⲡ", "Ⲣ", "Ⲥ", "Ⲧ", "Ⲩ", "Ⲫ",
      "Ⲭ", "Ⲯ", "Ⲱ", "Ⲳ", "Ⲵ", "Ⲷ", "Ⲹ", "Ⲻ", "Ⲽ", "Ⲿ", "Ⳁ", "Ⳃ",
      "Ⳅ", "Ⳇ", "Ⳉ", "Ⳋ", "Ⳍ", "Ⳏ", "Ⳑ", "Ⳓ", "Ⳕ", "Ⳗ", "Ⳙ", "Ⳛ",
      "Ⳝ", "Ⳟ", "Ⳡ", "Ⳣ", "Ⳬ", "Ⳮ", "Ⳳ", "Ꚁ", "Ꚃ", "Ꚅ", "Ꚇ", "Ꚉ",
      "Ꚋ", "Ꚍ", "Ꚏ", "Ꚑ", "Ꚓ", "Ꚕ", "Ꚗ", "Ꚙ", "Ꚛ", "Ꞁ", "Ꞃ", "Ꞅ",
      "Ꞇ", "Ꞌ", "Ꞑ", "Ꞓ", "Ꞗ", "Ꞙ", "Ꞛ", "Ꞝ", "Ꞟ", "Ꞡ", "Ꞣ", "Ꞥ",
      "Ꞧ", "Ꞩ", "Ʞ", "Ʇ", "Ʝ", "Ꞵ", "Ꞷ", "Ꞹ", "Ꞻ", "Ꞽ", "Ꞿ", "Ꟁ",
      "Ꟃ", "Ꞔ", "Ʂ", "Ᶎ", "Ꟈ", "Ꟊ", "Ꟑ", "Ꟗ", "Ꟙ", "Ꟶ"
    >>
LowerCase ==
    <<
      "a", "b", "c", "d", "e", "f", "g", "h", "i", "j", "k", "l",
      "m", "n", "o", "p", "q", "r", "s", "t", "u", "v", "w", "x",
      "y", "z", "à", "á", "â", "ã", "ä", "å", "æ", "ç", "è", "é",
      "ê", "ë", "ì", "í", "î", "ï", "ð", "ñ", "ò", "ó", "ô", "õ",
      "ö", "ø", "ù", "ú", "û", "ü", "ý", "þ", "ƃ", "ƅ", "ƈ", "ƌ",
      "ǝ", "ƒ", "ƙ", "ơ", "ƣ", "ƥ", "ʀ", "ƨ", "ʃ", "ƭ", "ʈ", "ư",
      "ʊ", "ʋ", "ƴ", "ƶ", "ʒ", "ƹ", "ƽ", "ǆ", "ǆ", "ǉ", "ǉ", "ǌ",
      "ǌ", "ǎ", "ǐ", "ǒ", "ǔ", "ǖ", "ǘ", "ǚ", "ǜ", "ǟ", "ǡ", "ǣ",
      "ǥ", "ǧ", "ǩ", "ǫ", "ǭ", "ǯ", "ǳ", "ǳ", "ǵ", "ƕ", "ƿ", "ǹ",
      "ǻ", "ǽ", "ǿ", "ά", "έ", "ή", "ί", "ό", "ύ", "ώ", "α", "β",
      "γ", "δ", "ε", "ζ", "η", "θ", "ι", "κ", "λ", "μ", "ν", "ξ",
      "ο", "π", "ρ", "σ", "τ", "υ", "φ", "χ", "ψ", "ω", "ϊ", "ϋ",
      "ϗ", "ϙ", "ϛ", "ϝ", "ϟ", "ϡ", "ϣ", "ϥ", "ϧ", "ϩ", "ϫ", "ϭ",
      "ϯ", "θ", "ϸ", "ϲ", "ϻ", "ҁ", "ҋ", "ҍ", "ҏ", "ґ", "ғ", "ҕ",
      "җ", "ҙ", "қ", "ҝ", "ҟ", "ҡ", "ң", "ҥ", "ҧ", "ҩ", "ҫ", "ҭ",
      "ү", "ұ", "ҳ", "ҵ", "ҷ", "ҹ", "һ", "ҽ", "ҿ", "ӏ", "ӂ", "ӄ",
      "ӆ", "ӈ", "ӊ", "ӌ", "ӎ", "ӑ", "ӓ", "ӕ", "ӗ", "ә", "ӛ", "ӝ",
      "ӟ", "ӡ", "ӣ", "ӥ", "ӧ", "ө", "ӫ", "ӭ", "ӯ", "ӱ", "ӳ", "ӵ",
      "ӷ", "ӹ", "ӻ", "ӽ", "ӿ", "ꮀ", "ꮁ", "ꮂ", "ꮃ", "ꮄ", "ꮅ", "ꮆ",
      "ꮇ", "ꮈ", "ꮉ", "ꮊ", "ꮋ", "ꮌ", "ꮍ", "ꮎ", "ꮏ", "ꮐ", "ꮑ", "ꮒ",
      "ꮓ", "ꮔ", "ꮕ", "ꮖ", "ꮗ", "ꮘ", "ꮙ", "ꮚ", "ꮛ", "ꮜ", "ꮝ", "ꮞ",
      "ꮟ", "ꮠ", "ꮡ", "ꮢ", "ꮣ", "ꮤ", "ꮥ", "ꮦ", "ꮧ", "ꮨ", "ꮩ", "ꮪ",
      "ꮫ", "ꮬ", "ꮭ", "ꮮ", "ꮯ", "ꮰ", "ꮱ", "ꮲ", "ꮳ", "ꮴ", "ꮵ", "ꮶ",
      "ꮷ", "ꮸ", "ꮹ", "ꮺ", "ꮻ", "ꮼ", "ꮽ", "ꮾ", "ꮿ", "ᏸ", "ᏹ", "ᏺ",
      "ᏻ", "ᏼ", "ᏽ", "ა", "ბ", "გ", "დ", "ე", "ვ", "ზ", "თ", "ი",
      "კ", "ლ", "მ", "ნ", "ო", "პ", "ჟ", "რ", "ს", "ტ", "უ", "ფ",
      "ქ", "ღ", "ყ", "შ", "ჩ", "ც", "ძ", "წ", "ჭ", "ხ", "ჯ", "ჰ",
      "ჱ", "ჲ", "ჳ", "ჴ", "ჵ", "ჶ", "ჷ", "ჸ", "ჹ", "ჺ", "ჽ", "ჾ",
      "ჿ", "ẁ", "ẃ", "ẅ", "ẇ", "ẉ", "ẋ", "ẍ", "ẏ", "ẑ", "ẓ", "ẕ",
      "ß", "ạ", "ả", "ấ", "ầ", "ẩ", "ẫ", "ậ", "ắ", "ằ", "ẳ", "ẵ",
      "ặ", "ẹ", "ẻ", "ẽ", "ế", "ề", "ể", "ễ", "ệ", "ỉ", "ị", "ọ",
      "ỏ", "ố", "ồ", "ổ", "ỗ", "ộ", "ớ", "ờ", "ở", "ỡ", "ợ", "ụ",
      "ủ", "ứ", "ừ", "ử", "ữ", "ự", "ỳ", "ỵ", "ỷ", "ỹ", "ỻ", "ỽ",
      "ỿ", "ᾀ", "ᾁ", "ᾂ", "ᾃ", "ᾄ", "ᾅ", "ᾆ", "ᾇ", "ᾐ", "ᾑ", "ᾒ",
      "ᾓ", "ᾔ", "ᾕ", "ᾖ", "ᾗ", "ᾠ", "ᾡ", "ᾢ", "ᾣ", "ᾤ", "ᾥ", "ᾦ",
      "ᾧ", "ᾰ", "ᾱ", "ᾳ", "ῃ", "ῐ", "ῑ", "ῠ", "ῡ", "ῥ", "ῳ", "ↄ",
      "ⓐ", "ⓑ", "ⓒ", "ⓓ", "ⓔ", "ⓕ", "ⓖ", "ⓗ", "ⓘ", "ⓙ", "ⓚ", "ⓛ",
      "ⓜ", "ⓝ", "ⓞ", "ⓟ", "ⓠ", "ⓡ", "ⓢ", "ⓣ", "ⓤ", "ⓥ", "ⓦ", "ⓧ",
      "ⓨ", "ⓩ", "ⲁ", "ⲃ", "ⲅ", "ⲇ", "ⲉ", "ⲋ", "ⲍ", "ⲏ", "ⲑ", "ⲓ",
      "ⲕ", "ⲗ", "ⲙ", "ⲛ", "ⲝ", "ⲟ", "ⲡ", "ⲣ", "ⲥ", "ⲧ", "ⲩ", "ⲫ",
      "ⲭ", "ⲯ", "ⲱ", "ⲳ", "ⲵ", "ⲷ", "ⲹ", "ⲻ", "ⲽ", "ⲿ", "ⳁ", "ⳃ",
      "ⳅ", "ⳇ", "ⳉ", "ⳋ", "ⳍ", "ⳏ", "ⳑ", "ⳓ", "ⳕ", "ⳗ", "ⳙ", "ⳛ",
      "ⳝ", "ⳟ", "ⳡ", "ⳣ", "ⳬ", "ⳮ", "ⳳ", "ꚁ", "ꚃ", "ꚅ", "ꚇ", "ꚉ",
      "ꚋ", "ꚍ", "ꚏ", "ꚑ", "ꚓ", "ꚕ", "ꚗ", "ꚙ", "ꚛ", "ꞁ", "ꞃ", "ꞅ",
      "ꞇ", "ꞌ", "ꞑ", "ꞓ", "ꞗ", "ꞙ", "ꞛ", "ꞝ", "ꞟ", "ꞡ", "ꞣ", "ꞥ",
      "ꞧ", "ꞩ", "ʞ", "ʇ", "ʝ", "ꞵ", "ꞷ", "ꞹ", "ꞻ", "ꞽ", "ꞿ", "ꟁ",
      "ꟃ", "ꞔ", "ʂ", "ᶎ", "ꟈ", "ꟊ", "ꟑ", "ꟗ", "ꟙ", "ꟶ"
    >>

\* the 93 letters that can be written here but whose lower-case form cannot
\* (U+0181 gives U+0253, U+10A0 gives U+2D00, U+13A0 gives U+AB70, ...): no
\* string of this module is the lower-case form of a text holding one
NoLowerForm ==
    {
      "Ɓ", "Ɔ", "Ɖ", "Ɗ", "Ə", "Ɛ", "Ɠ", "Ɣ", "Ɩ", "Ɨ", "Ɯ", "Ɲ",
      "Ɵ", "Ͻ", "Ͼ", "Ͽ", "Ⴀ", "Ⴁ", "Ⴂ", "Ⴃ", "Ⴄ", "Ⴅ", "Ⴆ", "Ⴇ",
      "Ⴈ", "Ⴉ", "Ⴊ", "Ⴋ", "Ⴌ", "Ⴍ", "Ⴎ", "Ⴏ", "Ⴐ", "Ⴑ", "Ⴒ", "Ⴓ",
      "Ⴔ", "Ⴕ", "Ⴖ", "Ⴗ", "Ⴘ", "Ⴙ", "Ⴚ", "Ⴛ", "Ⴜ", "Ⴝ", "Ⴞ", "Ⴟ",
      "Ⴠ", "Ⴡ", "Ⴢ", "Ⴣ", "Ⴤ", "Ⴥ", "Ⴧ", "Ⴭ", "Ꭰ", "Ꭱ", "Ꭲ", "Ꭳ",
      "Ꭴ", "Ꭵ", "Ꭶ", "Ꭷ", "Ꭸ", "Ꭹ", "Ꭺ", "Ꭻ", "Ꭼ", "Ꭽ", "Ꭾ", "Ꭿ",
      "Ὰ", "Ά", "Ὲ", "Έ", "Ὴ", "Ή", "Ὶ", "Ί", "Ὺ", "Ύ", "Ὸ", "Ό",
      "Ὼ", "Ώ", "Ɥ", "Ɦ", "Ɜ", "Ɡ", "Ɬ", "Ɪ", "Ꭓ"
    }

\* the characters str.lower() counts as cased when it looks around a capital
\* sigma, among those a string here can hold
Cased ==
    {
      "A", "B", "C", "D", "E", "F", "G", "H", "I", "J", "K", "L",
      "M", "N", "O", "P", "Q", "R", "S", "T", "U", "V", "W", "X",
      "Y", "Z", "a", "b", "c", "d", "e", "f", "g", "h", "i", "j",
      "k", "l", "m", "n", "o", "p", "q", "r", "s", "t", "u", "v",
      "w", "x", "y", "z", "ª", "µ", "º", "À", "Á", "Â", "Ã", "Ä",
      "Å", "Æ", "Ç", "È", "É", "Ê", "Ë", "Ì", "Í", "Î", "Ï", "Ð",
      "Ñ", "Ò", "Ó", "Ô", "Õ", "Ö", "Ø", "Ù", "Ú", "Û", "Ü", "Ý",
      "Þ", "ß", "à", "á", "â", "ã", "ä", "å", "æ", "ç", "è", "é",
      "ê", "ë", "ì", "í", "î", "ï", "ð", "ñ", "ò", "ó", "ô", "õ",
      "ö", "ø", "ù", "ú", "û", "ü", "ý", "þ", "ÿ", "ƀ", "Ɓ", "Ƃ",
      "ƃ", "Ƅ", "ƅ", "Ɔ", "Ƈ", "ƈ", "Ɖ", "Ɗ", "Ƌ", "ƌ", "ƍ", "Ǝ",
      "Ə", "Ɛ", "Ƒ", "ƒ", "Ɠ", "Ɣ", "ƕ", "Ɩ", "Ɨ", "Ƙ", "ƙ", "ƚ",
      "ƛ", "Ɯ", "Ɲ", "ƞ", "Ɵ", "Ơ", "ơ", "Ƣ", "ƣ", "Ƥ", "ƥ", "Ʀ",
      "Ƨ", "ƨ", "Ʃ", "ƪ", "ƫ", "Ƭ", "ƭ", "Ʈ", "Ư", "ư", "Ʊ", "Ʋ",
      "Ƴ", "ƴ", "Ƶ", "ƶ", "Ʒ", "Ƹ", "ƹ", "ƺ", "Ƽ", "ƽ", "ƾ", "ƿ",
      "Ǆ", "ǅ", "ǆ", "Ǉ", "ǈ", "ǉ", "Ǌ", "ǋ", "ǌ", "Ǎ", "ǎ", "Ǐ",
      "ǐ", "Ǒ", "ǒ", "Ǔ", "ǔ", "Ǖ", "ǖ", "Ǘ", "ǘ", "Ǚ", "ǚ", "Ǜ",
      "ǜ", "ǝ", "Ǟ", "ǟ", "Ǡ", "ǡ", "Ǣ", "ǣ", "Ǥ", "ǥ", "Ǧ", "ǧ",
      "Ǩ", "ǩ", "Ǫ", "ǫ", "Ǭ", "ǭ", "Ǯ", "ǯ", "ǰ", "Ǳ", "ǲ", "ǳ",
      "Ǵ", "ǵ", "Ƕ", "Ƿ", "Ǹ", "ǹ", "Ǻ", "ǻ", "Ǽ", "ǽ", "Ǿ", "ǿ",
      "ʀ", "ʁ", "ʂ", "ʃ", "ʄ", "ʅ", "ʆ", "ʇ", "ʈ", "ʉ", "ʊ", "ʋ",
      "ʌ", "ʍ", "ʎ", "ʏ", "ʐ", "ʑ", "ʒ", "ʓ", "ʕ", "ʖ", "ʗ", "ʘ",
      "ʙ", "ʚ", "ʛ", "ʜ", "ʝ", "ʞ", "ʟ", "ʠ", "ʡ", "ʢ", "ʣ", "ʤ",
      "ʥ", "ʦ", "ʧ", "ʨ", "ʩ", "ʪ", "ʫ", "ʬ", "ʭ", "ʮ", "ʯ", "ʰ",
      "ʱ", "ʲ", "ʳ", "ʴ", "ʵ", "ʶ", "ʷ", "ʸ", "ˀ", "ˁ", "ˠ", "ˡ",
      "ˢ", "ˣ", "ˤ", "Ά", "Έ", "Ή", "Ί", "Ό", "Ύ", "Ώ", "ΐ", "Α",
      "Β", "Γ", "Δ", "Ε", "Ζ", "Η", "Θ", "Ι", "Κ", "Λ", "Μ", "Ν",
      "Ξ", "Ο", "Π", "Ρ", "Σ", "Τ", "Υ", "Φ", "Χ", "Ψ", "Ω", "Ϊ",
      "Ϋ", "ά", "έ", "ή", "ί", "ΰ", "α", "β", "γ", "δ", "ε", "ζ",
      "η", "θ", "ι", "κ", "λ", "μ", "ν", "ξ", "ο", "π", "ρ", "ς",
      "σ", "τ", "υ", "φ", "χ", "ψ", "ω", "ϊ", "ϋ", "ό", "ύ", "ώ",
      "Ϗ", "ϐ", "ϑ", "ϒ", "ϓ", "ϔ", "ϕ", "ϖ", "ϗ", "Ϙ", "ϙ", "Ϛ",
      "ϛ", "Ϝ", "ϝ", "Ϟ", "ϟ", "Ϡ", "ϡ", "Ϣ", "ϣ", "Ϥ", "ϥ", "Ϧ",
      "ϧ", "Ϩ", "ϩ", "Ϫ", "ϫ", "Ϭ", "ϭ", "Ϯ", "ϯ", "ϰ", "ϱ", "ϲ",
      "ϳ", "ϴ", "ϵ", "Ϸ", "ϸ", "Ϲ", "Ϻ", "ϻ", "ϼ", "Ͻ", "Ͼ", "Ͽ",
      "Ҁ", "ҁ", "Ҋ", "ҋ", "Ҍ", "ҍ", "Ҏ", "ҏ", "Ґ", "ґ", "Ғ", "ғ",
      "Ҕ", "ҕ", "Җ", "җ", "Ҙ", "ҙ", "Қ", "қ", "Ҝ", "ҝ", "Ҟ", "ҟ",
      "Ҡ", "ҡ", "Ң", "ң", "Ҥ", "ҥ", "Ҧ", "ҧ", "Ҩ", "ҩ", "Ҫ", "ҫ",
      "Ҭ", "ҭ", "Ү", "ү", "Ұ", "ұ", "Ҳ", "ҳ", "Ҵ", "ҵ", "Ҷ", "ҷ",
      "Ҹ", "ҹ", "Һ", "һ", "Ҽ", "ҽ", "Ҿ", "ҿ", "Ӏ", "Ӂ", "ӂ", "Ӄ",
      "ӄ", "Ӆ", "ӆ", "Ӈ", "ӈ", "Ӊ", "ӊ", "Ӌ", "ӌ", "Ӎ", "ӎ", "ӏ",
      "Ӑ", "ӑ", "Ӓ", "ӓ", "Ӕ", "ӕ", "Ӗ", "ӗ", "Ә", "ә", "Ӛ", "ӛ",
      "Ӝ", "ӝ", "Ӟ", "ӟ", "Ӡ", "ӡ", "Ӣ", "ӣ", "Ӥ", "ӥ", "Ӧ", "ӧ",
      "Ө", "ө", "Ӫ", "ӫ", "Ӭ", "ӭ", "Ӯ", "ӯ", "Ӱ", "ӱ", "Ӳ", "ӳ",
      "Ӵ", "ӵ", "Ӷ", "ӷ", "Ӹ", "ӹ", "Ӻ", "ӻ", "Ӽ", "ӽ", "Ӿ", "ӿ",
      "ր", "ց", "ւ", "փ", "ք", "օ", "ֆ", "և", "ֈ", "Ⴀ", "Ⴁ", "Ⴂ",
      "Ⴃ", "Ⴄ", "Ⴅ", "Ⴆ", "Ⴇ", "Ⴈ", "Ⴉ", "Ⴊ", "Ⴋ", "Ⴌ", "Ⴍ", "Ⴎ",
      "Ⴏ", "Ⴐ", "Ⴑ", "Ⴒ", "Ⴓ", "Ⴔ", "Ⴕ", "Ⴖ", "Ⴗ", "Ⴘ", "Ⴙ", "Ⴚ",
      "Ⴛ", "Ⴜ", "Ⴝ", "Ⴞ", "Ⴟ", "Ⴠ", "Ⴡ", "Ⴢ", "Ⴣ", "Ⴤ", "Ⴥ", "Ⴧ",
      "Ⴭ", "ა", "ბ", "გ", "დ", "ე", "ვ", "ზ", "თ", "ი", "კ", "ლ",
      "მ", "ნ", "ო", "პ", "ჟ", "რ", "ს", "ტ", "უ", "ფ", "ქ", "ღ",
      "ყ", "შ", "ჩ", "ც", "ძ", "წ", "ჭ", "ხ", "ჯ", "ჰ", "ჱ", "ჲ",
      "ჳ", "ჴ", "ჵ", "ჶ", "ჷ", "ჸ", "ჹ", "ჺ", "ჽ", "ჾ", "ჿ", "Ꭰ",
      "Ꭱ", "Ꭲ", "Ꭳ", "Ꭴ", "Ꭵ", "Ꭶ", "Ꭷ", "Ꭸ", "Ꭹ", "Ꭺ", "Ꭻ", "Ꭼ",
      "Ꭽ", "Ꭾ", "Ꭿ", "Ꮀ", "Ꮁ", "Ꮂ", "Ꮃ", "Ꮄ", "Ꮅ", "Ꮆ", "Ꮇ", "Ꮈ",
      "Ꮉ", "Ꮊ", "Ꮋ", "Ꮌ", "Ꮍ", "Ꮎ", "Ꮏ", "Ꮐ", "Ꮑ", "Ꮒ", "Ꮓ", "Ꮔ",
      "Ꮕ", "Ꮖ", "Ꮗ", "Ꮘ", "Ꮙ", "Ꮚ", "Ꮛ", "Ꮜ", "Ꮝ", "Ꮞ", "Ꮟ", "Ꮠ",
      "Ꮡ", "Ꮢ", "Ꮣ", "Ꮤ", "Ꮥ", "Ꮦ", "Ꮧ", "Ꮨ", "Ꮩ", "Ꮪ", "Ꮫ", "Ꮬ",
      "Ꮭ", "Ꮮ", "Ꮯ", "Ꮰ", "Ꮱ", "Ꮲ", "Ꮳ", "Ꮴ", "Ꮵ", "Ꮶ", "Ꮷ", "Ꮸ",
      "Ꮹ", "Ꮺ", "Ꮻ", "Ꮼ", "Ꮽ", "Ꮾ", "Ꮿ", "Ᏸ", "Ᏹ", "Ᏺ", "Ᏻ", "Ᏼ",
      "Ᏽ", "ᏸ", "ᏹ", "ᏺ", "ᏻ", "ᏼ", "ᏽ", "ᲀ", "ᲁ", "ᲂ", "ᲃ", "ᲄ",
      "ᲅ", "ᲆ", "ᲇ", "ᲈ", "Ა", "Ბ", "Გ", "Დ", "Ე", "Ვ", "Ზ", "Თ",
      "Ი", "Კ", "Ლ", "Მ", "Ნ", "Ო", "Პ", "Ჟ", "Რ", "Ს", "Ტ", "Უ",
      "Ფ", "Ქ", "Ღ", "Ყ", "Შ", "Ჩ", "Ც", "Ძ", "Წ", "Ჭ", "Ხ", "Ჯ",
      "Ჰ", "Ჱ", "Ჲ", "Ჳ", "Ჴ", "Ჵ", "Ჶ", "Ჷ", "Ჸ", "Ჹ", "Ჺ", "Ჽ",
      "Ჾ", "Ჿ", "ᶀ", "ᶁ", "ᶂ", "ᶃ", "ᶄ", "ᶅ", "ᶆ", "ᶇ", "ᶈ", "ᶉ",
      "ᶊ", "ᶋ", "ᶌ", "ᶍ", "ᶎ", "ᶏ", "ᶐ", "ᶑ", "ᶒ", "ᶓ", "ᶔ", "ᶕ",
      "ᶖ", "ᶗ", "ᶘ", "ᶙ", "ᶚ", "ᶛ", "ᶜ", "ᶝ", "ᶞ", "ᶟ", "ᶠ", "ᶡ",
      "ᶢ", "ᶣ", "ᶤ", "ᶥ", "ᶦ", "ᶧ", "ᶨ", "ᶩ", "ᶪ", "ᶫ", "ᶬ", "ᶭ",
      "ᶮ", "ᶯ", "ᶰ", "ᶱ", "ᶲ", "ᶳ", "ᶴ", "ᶵ", "ᶶ", "ᶷ", "ᶸ", "ᶹ",
      "ᶺ", "ᶻ", "ᶼ", "ᶽ", "ᶾ", "ᶿ", "Ẁ", "ẁ", "Ẃ", "ẃ", "Ẅ", "ẅ",
      "Ẇ", "ẇ", "Ẉ", "ẉ", "Ẋ", "ẋ", "Ẍ", "ẍ", "Ẏ", "ẏ", "Ẑ", "ẑ",
      "Ẓ", "ẓ", "Ẕ", "ẕ", "ẖ", "ẗ", "ẘ", "ẙ", "ẚ", "ẛ", "ẜ", "ẝ",
      "ẞ", "ẟ", "Ạ", "ạ", "Ả", "ả", "Ấ", "ấ", "Ầ", "ầ", "Ẩ", "ẩ",
      "Ẫ", "ẫ", "Ậ", "ậ", "Ắ", "ắ", "Ằ", "ằ", "Ẳ", "ẳ", "Ẵ", "ẵ",
      "Ặ", "ặ", "Ẹ", "ẹ", "Ẻ", "ẻ", "Ẽ", "ẽ", "Ế", "ế", "Ề", "ề",
      "Ể", "ể", "Ễ", "ễ", "Ệ", "ệ", "Ỉ", "ỉ", "Ị", "ị", "Ọ", "ọ",
      "Ỏ", "ỏ", "Ố", "ố", "Ồ", "ồ", "Ổ", "ổ", "Ỗ", "ỗ", "Ộ", "ộ",
      "Ớ", "ớ", "Ờ", "ờ", "Ở", "ở", "Ỡ", "ỡ", "Ợ", "ợ", "Ụ", "ụ",
      "Ủ", "ủ", "Ứ", "ứ", "Ừ", "ừ", "Ử", "ử", "Ữ", "ữ", "Ự", "ự",
      "Ỳ", "ỳ", "Ỵ", "ỵ", "Ỷ", "ỷ", "Ỹ", "ỹ", "Ỻ", "ỻ", "Ỽ", "ỽ",
      "Ỿ", "ỿ", "ᾀ", "ᾁ", "ᾂ", "ᾃ", "ᾄ", "ᾅ", "ᾆ", "ᾇ", "ᾈ", "ᾉ",
      "ᾊ", "ᾋ", "ᾌ", "ᾍ", "ᾎ", "ᾏ", "ᾐ", "ᾑ", "ᾒ", "ᾓ", "ᾔ", "ᾕ",
      "ᾖ", "ᾗ", "ᾘ", "ᾙ", "ᾚ", "ᾛ", "ᾜ", "ᾝ", "ᾞ", "ᾟ", "ᾠ", "ᾡ",
      "ᾢ", "ᾣ", "ᾤ", "ᾥ", "ᾦ", "ᾧ", "ᾨ", "ᾩ", "ᾪ", "ᾫ", "ᾬ", "ᾭ",
      "ᾮ", "ᾯ", "ᾰ", "ᾱ", "ᾲ", "ᾳ", "ᾴ", "ᾶ", "ᾷ", "Ᾰ", "Ᾱ", "Ὰ",
      "Ά", "ᾼ", "ι", "ῂ", "ῃ", "ῄ", "ῆ", "ῇ", "Ὲ", "Έ", "Ὴ", "Ή",
      "ῌ", "ῐ", "ῑ", "ῒ", "ΐ", "ῖ", "ῗ", "Ῐ", "Ῑ", "Ὶ", "Ί", "ῠ",
      "ῡ", "ῢ", "ΰ", "ῤ", "ῥ", "ῦ", "ῧ", "Ῠ", "Ῡ", "Ὺ", "Ύ", "Ῥ",
      "ῲ", "ῳ", "ῴ", "ῶ", "ῷ", "Ὸ", "Ό", "Ὼ", "Ώ", "ῼ", "ₐ", "ₑ",
      "ₒ", "ₓ", "ₔ", "ₕ", "ₖ", "ₗ", "ₘ", "ₙ", "ₚ", "ₛ", "ₜ", "Ↄ",
      "ↄ", "Ⓐ", "Ⓑ", "Ⓒ", "Ⓓ", "Ⓔ", "Ⓕ", "Ⓖ", "Ⓗ", "Ⓘ", "Ⓙ", "Ⓚ",
      "Ⓛ", "Ⓜ", "Ⓝ", "Ⓞ", "Ⓟ", "Ⓠ", "Ⓡ", "Ⓢ", "Ⓣ", "Ⓤ", "Ⓥ", "Ⓦ",
      "Ⓧ", "Ⓨ", "Ⓩ", "ⓐ", "ⓑ", "ⓒ", "ⓓ", "ⓔ", "ⓕ", "ⓖ", "ⓗ", "ⓘ",
      "ⓙ", "ⓚ", "ⓛ", "ⓜ", "ⓝ", "ⓞ", "ⓟ", "ⓠ", "ⓡ", "ⓢ", "ⓣ", "ⓤ",
      "ⓥ", "ⓦ", "ⓧ", "ⓨ", "ⓩ", "Ⲁ", "ⲁ", "Ⲃ", "ⲃ", "Ⲅ", "ⲅ", "Ⲇ",
      "ⲇ", "Ⲉ", "ⲉ", "Ⲋ", "ⲋ", "Ⲍ", "ⲍ", "Ⲏ", "ⲏ", "Ⲑ", "ⲑ", "Ⲓ",
      "ⲓ", "Ⲕ", "ⲕ", "Ⲗ", "ⲗ", "Ⲙ", "ⲙ", "Ⲛ", "ⲛ", "Ⲝ", "ⲝ", "Ⲟ",
      "ⲟ", "Ⲡ", "ⲡ", "Ⲣ", "ⲣ", "Ⲥ", "ⲥ", "Ⲧ", "ⲧ", "Ⲩ", "ⲩ", "Ⲫ",
      "ⲫ", "Ⲭ", "ⲭ", "Ⲯ", "ⲯ", "Ⲱ", "ⲱ", "Ⲳ", "ⲳ", "Ⲵ", "ⲵ", "Ⲷ",
      "ⲷ", "Ⲹ", "ⲹ", "Ⲻ", "ⲻ", "Ⲽ", "ⲽ", "Ⲿ", "ⲿ", "Ⳁ", "ⳁ", "Ⳃ",
      "ⳃ", "Ⳅ", "ⳅ", "Ⳇ", "ⳇ", "Ⳉ", "ⳉ", "Ⳋ", "ⳋ", "Ⳍ", "ⳍ", "Ⳏ",
      "ⳏ", "Ⳑ", "ⳑ", "Ⳓ", "ⳓ", "Ⳕ", "ⳕ", "Ⳗ", "ⳗ", "Ⳙ", "ⳙ", "Ⳛ",
      "ⳛ", "Ⳝ", "ⳝ", "Ⳟ", "ⳟ", "Ⳡ", "ⳡ", "Ⳣ", "ⳣ", "ⳤ", "Ⳬ", "ⳬ",
      "Ⳮ", "ⳮ", "Ⳳ", "ⳳ", "Ꚁ", "ꚁ", "Ꚃ", "ꚃ", "Ꚅ", "ꚅ", "Ꚇ", "ꚇ",
      "Ꚉ", "ꚉ", "Ꚋ", "ꚋ", "Ꚍ", "ꚍ", "Ꚏ", "ꚏ", "Ꚑ", "ꚑ", "Ꚓ", "ꚓ",
      "Ꚕ", "ꚕ", "Ꚗ", "ꚗ", "Ꚙ", "ꚙ", "Ꚛ", "ꚛ", "ꚜ", "ꚝ", "Ꞁ", "ꞁ",
      "Ꞃ", "ꞃ", "Ꞅ", "ꞅ", "Ꞇ", "ꞇ", "Ꞌ", "ꞌ", "Ɥ", "ꞎ", "Ꞑ", "ꞑ",
      "Ꞓ", "ꞓ", "ꞔ", "ꞕ", "Ꞗ", "ꞗ", "Ꞙ", "ꞙ", "Ꞛ", "ꞛ", "Ꞝ", "ꞝ",
      "Ꞟ", "ꞟ", "Ꞡ", "ꞡ", "Ꞣ", "ꞣ", "Ꞥ", "ꞥ", "Ꞧ", "ꞧ", "Ꞩ", "ꞩ",
      "Ɦ", "Ɜ", "Ɡ", "Ɬ", "Ɪ", "ꞯ", "Ʞ", "Ʇ", "Ʝ", "Ꭓ", "Ꞵ", "ꞵ",
      "Ꞷ", "ꞷ", "Ꞹ", "ꞹ", "Ꞻ", "ꞻ", "Ꞽ", "ꞽ", "Ꞿ", "ꞿ", "Ꟁ", "ꟁ",
      "Ꟃ", "ꟃ", "Ꞔ", "Ʂ", "Ᶎ", "Ꟈ", "ꟈ", "Ꟊ", "ꟊ", "Ꟑ", "ꟑ", "ꟓ",
      "ꟕ", "Ꟗ", "ꟗ", "Ꟙ", "ꟙ", "Ꟶ", "ꟶ", "ꟸ", "ꟹ", "ꟺ", "ꮀ", "ꮁ",
      "ꮂ", "ꮃ", "ꮄ", "ꮅ", "ꮆ", "ꮇ", "ꮈ", "ꮉ", "ꮊ", "ꮋ", "ꮌ", "ꮍ",
      "ꮎ", "ꮏ", "ꮐ", "ꮑ", "ꮒ", "ꮓ", "ꮔ", "ꮕ", "ꮖ", "ꮗ", "ꮘ", "ꮙ",
      "ꮚ", "ꮛ", "ꮜ", "ꮝ", "ꮞ", "ꮟ", "ꮠ", "ꮡ", "ꮢ", "ꮣ", "ꮤ", "ꮥ",
      "ꮦ", "ꮧ", "ꮨ", "ꮩ", "ꮪ", "ꮫ", "ꮬ", "ꮭ", "ꮮ", "ꮯ", "ꮰ", "ꮱ",
      "ꮲ", "ꮳ", "ꮴ", "ꮵ", "ꮶ", "ꮷ", "ꮸ", "ꮹ", "ꮺ", "ꮻ", "ꮼ", "ꮽ",
      "ꮾ", "ꮿ"
    }

\* the characters str.lower() skips when it looks around a capital sigma
\* (marks, modifier letters, some punctuation), among those a string here can
\* hold
CaseIgnorable ==
    {
      "'", ".", ":", "^", SubSeq("`'", 1, 1), "¨", "­", "¯", "´", "·", "¸", "ʰ",
      "ʱ", "ʲ", "ʳ", "ʴ", "ʵ", "ʶ", "ʷ", "ʸ", "ʹ", "ʺ", "ʻ", "ʼ",
      "ʽ", "ʾ", "ʿ", "ˀ", "ˁ", "˂", "˃", "˄", "˅", "ˆ", "ˇ", "ˈ",
      "ˉ", "ˊ", "ˋ", "ˌ", "ˍ", "ˎ", "ˏ", "ː", "ˑ", "˒", "˓", "˔",
      "˕", "˖", "˗", "˘", "˙", "˚", "˛", "˜", "˝", "˞", "˟", "ˠ",
      "ˡ", "ˢ", "ˣ", "ˤ", "˥", "˦", "˧", "˨", "˩", "˪", "˫", "ˬ",
      "˭", "ˮ", "˯", "˰", "˱", "˲", "˳", "˴", "˵", "˶", "˷", "˸",
      "˹", "˺", "˻", "˼", "˽", "˾", "˿", "΄", "΅", "·", "҃", "҄",
      "҅", "҆", "҇", "҈", "҉", "֑", "֒", "֓", "֔", "֕", "֖", "֗",
      "֘", "֙", "֚", "֛", "֜", "֝", "֞", "֟", "֠", "֡", "֢", "֣",
      "֤", "֥", "֦", "֧", "֨", "֩", "֪", "֫", "֬", "֭", "֮", "֯",
      "ְ", "ֱ", "ֲ", "ֳ", "ִ", "ֵ", "ֶ", "ַ", "ָ", "ֹ", "ֺ", "ֻ",
      "ּ", "ֽ", "ֿ", "ׁ", "ׂ", "ׄ", "ׅ", "ׇ", "״", "ۖ", "ۗ", "ۘ",
      "ۙ", "ۚ", "ۛ", "ۜ", "۝", "۟", "۠", "ۡ", "ۢ", "ۣ", "ۤ", "ۥ",
      "ۦ", "ۧ", "ۨ", "۪", "۫", "۬", "ۭ", "ަ", "ާ", "ި", "ީ", "ު",
      "ޫ", "ެ", "ޭ", "ޮ", "ޯ", "ް", "߫", "߬", "߭", "߮", "߯", "߰",
      "߱", "߲", "߳", "ߴ", "ߵ", "ߺ", "߽", "࢈", "࢐", "࢑", "࢘", "࢙",
      "࢚", "࢛", "࢜", "࢝", "࢞", "࢟", "ࣉ", "࣊", "࣋", "࣌", "࣍", "࣎",
      "࣏", "࣐", "࣑", "࣒", "࣓", "ࣔ", "ࣕ", "ࣖ", "ࣗ", "ࣘ", "ࣙ", "ࣚ",
      "ࣛ", "ࣜ", "ࣝ", "ࣞ", "ࣟ", "࣠", "࣡", "࣢", "ࣣ", "ࣤ", "ࣥ", "ࣦ",
      "ࣧ", "ࣨ", "ࣩ", "࣪", "࣫", "࣬", "࣭", "࣮", "࣯", "ࣰ", "ࣱ", "ࣲ",
      "ࣳ", "ࣴ", "ࣵ", "ࣶ", "ࣷ", "ࣸ", "ࣹ", "ࣺ", "ࣻ", "ࣼ", "ࣽ", "ࣾ",
      "ࣿ", "ঁ", "়", "ু", "ূ", "ৃ", "ৄ", "্", "ৢ", "ৣ", "৾", "ઁ",
      "ં", "઼", "ુ", "ૂ", "ૃ", "ૄ", "ૅ", "ે", "ૈ", "્", "ૢ", "ૣ",
      "ૺ", "ૻ", "ૼ", "૽", "૾", "૿", "ஂ", "ீ", "்", "ಁ", "಼", "ಿ",
      "ೆ", "ೌ", "್", "ೢ", "ೣ", "ඁ", "්", "ි", "ී", "ු", "ූ", "ັ",
      "ິ", "ີ", "ຶ", "ື", "ຸ", "ູ", "຺", "ົ", "ຼ", "ໆ", "່", "້",
      "໊", "໋", "໌", "ໍ", "ྀ", "ཱྀ", "ྂ", "ྃ", "྄", "྆", "྇", "ྍ",
      "ྎ", "ྏ", "ྐ", "ྑ", "ྒ", "ྒྷ", "ྔ", "ྕ", "ྖ", "ྗ", "ྙ", "ྚ",
      "ྛ", "ྜ", "ྜྷ", "ྞ", "ྟ", "ྠ", "ྡ", "ྡྷ", "ྣ", "ྤ", "ྥ", "ྦ",
      "ྦྷ", "ྨ", "ྩ", "ྪ", "ྫ", "ྫྷ", "ྭ", "ྮ", "ྯ", "ྰ", "ྱ", "ྲ",
      "ླ", "ྴ", "ྵ", "ྶ", "ྷ", "ྸ", "ྐྵ", "ྺ", "ྻ", "ྼ", "࿆", "ႂ",
      "ႅ", "ႆ", "ႍ", "ႝ", "ჼ", "឴", "឵", "ិ", "ី", "ឹ", "ឺ", "ុ",
      "ូ", "ួ", "ំ", "៉", "៊", "់", "៌", "៍", "៎", "៏", "័", "៑",
      "្", "៓", "ៗ", "៝", "ᢅ", "ᢆ", "ᢩ", "ᪧ", "᪰", "᪱", "᪲", "᪳",
      "᪴", "᪵", "᪶", "᪷", "᪸", "᪹", "᪺", "᪻", "᪼", "᪽", "᪾", "ᪿ",
      "ᫀ", "᫁", "᫂", "᫃", "᫄", "᫅", "᫆", "᫇", "᫈", "᫉", "᫊", "᫋",
      "ᫌ", "ᫍ", "ᫎ", "ᮀ", "ᮁ", "ᮢ", "ᮣ", "ᮤ", "ᮥ", "ᮨ", "ᮩ", "᮫",
      "ᮬ", "ᮭ", "᯦", "ᯨ", "ᯩ", "ᯭ", "ᯯ", "ᯰ", "ᯱ", "᳐", "᳑", "᳒",
      "᳔", "᳕", "᳖", "᳗", "᳘", "᳙", "᳚", "᳛", "᳜", "᳝", "᳞", "᳟",
      "᳠", "᳢", "᳣", "᳤", "᳥", "᳦", "᳧", "᳨", "᳭", "᳴", "᳸", "᳹",
      "ᶛ", "ᶜ", "ᶝ", "ᶞ", "ᶟ", "ᶠ", "ᶡ", "ᶢ", "ᶣ", "ᶤ", "ᶥ", "ᶦ",
      "ᶧ", "ᶨ", "ᶩ", "ᶪ", "ᶫ", "ᶬ", "ᶭ", "ᶮ", "ᶯ", "ᶰ", "ᶱ", "ᶲ",
      "ᶳ", "ᶴ", "ᶵ", "ᶶ", "ᶷ", "ᶸ", "ᶹ", "ᶺ", "ᶻ", "ᶼ", "ᶽ", "ᶾ",
      "ᶿ", "᷀", "᷁", "᷂", "᷃", "᷄", "᷅", "᷆", "᷇", "᷈", "᷉", "᷊",
      "᷋", "᷌", "᷍", "᷎", "᷏", "᷐", "᷑", "᷒", "ᷓ", "ᷔ", "ᷕ", "ᷖ",
      "ᷗ", "ᷘ", "ᷙ", "ᷚ", "ᷛ", "ᷜ", "ᷝ", "ᷞ", "ᷟ", "ᷠ", "ᷡ", "ᷢ",
      "ᷣ", "ᷤ", "ᷥ", "ᷦ", "ᷧ", "ᷨ", "ᷩ", "ᷪ", "ᷫ", "ᷬ", "ᷭ", "ᷮ",
      "ᷯ", "ᷰ", "ᷱ", "ᷲ", "ᷳ", "ᷴ", "᷵", "᷶", "᷷", "᷸", "᷹", "᷺",
      "᷻", "᷼", "᷽", "᷾", "᷿", "᾽", "᾿", "῀", "῁", "῍", "῎", "῏",
      "῝", "῞", "῟", "῭", "΅", "`", "´", "῾", "ₐ", "ₑ", "ₒ", "ₓ",
      "ₔ", "ₕ", "ₖ", "ₗ", "ₘ", "ₙ", "ₚ", "ₛ", "ₜ", "⃐", "⃑", "⃒",
      "⃓", "⃔", "⃕", "⃖", "⃗", "⃘", "⃙", "⃚", "⃛", "⃜", "⃝", "⃞",
      "⃟", "⃠", "⃡", "⃢", "⃣", "⃤", "⃥", "⃦", "⃧", "⃨", "⃩", "⃪",
      "⃫", "⃬", "⃭", "⃮", "⃯", "⃰", "⳯", "⳰", "⳱", "ⷠ", "ⷡ", "ⷢ",
      "ⷣ", "ⷤ", "ⷥ", "ⷦ", "ⷧ", "ⷨ", "ⷩ", "ⷪ", "ⷫ", "ⷬ", "ⷭ", "ⷮ",
      "ⷯ", "ⷰ", "ⷱ", "ⷲ", "ⷳ", "ⷴ", "ⷵ", "ⷶ", "ⷷ", "ⷸ", "ⷹ", "ⷺ",
      "ⷻ", "ⷼ", "ⷽ", "ⷾ", "ⷿ", "゙", "゚", "゛", "゜", "ゝ", "ゞ", "ー",
      "ヽ", "ヾ", "ꓸ", "ꓹ", "ꓺ", "ꓻ", "ꓼ", "ꓽ", "ꚜ", "ꚝ", "ꚞ", "ꚟ",
      "꛰", "꛱", "ꞈ", "꞉", "꞊", "ꟲ", "ꟳ", "ꟴ", "ꟸ", "ꟹ", "꣄", "ꣅ",
      "꣠", "꣡", "꣢", "꣣", "꣤", "꣥", "꣦", "꣧", "꣨", "꣩", "꣪", "꣫",
      "꣬", "꣭", "꣮", "꣯", "꣰", "꣱", "ꣿ", "ꦀ", "ꦁ", "ꦂ", "꦳", "ꦶ",
      "ꦷ", "ꦸ", "ꦹ", "ꦼ", "ꦽ", "ꧏ", "ꧥ", "ꧦ", "ꪰ", "ꪲ", "ꪳ", "ꪴ",
      "ꪷ", "ꪸ", "ꪾ", "꪿", "꫁", "ꫝ", "ꫬ", "ꫭ", "ꫳ", "ꫴ", "꫶", "ꯥ",
      "ꯨ", "꯭", "﮲", "﮳", "﮴", "﮵", "﮶", "﮷", "﮸", "﮹", "﮺", "﮻",
      "﮼", "﮽", "﮾", "﮿", "﯀", "﯁", "﯂", "﻿", "ﾞ", "ﾟ", "￣", "￹",
      "￺", "￻"
    }

\* str.lower() on one character; it has no value on a letter of NoLowerForm
LowerChar(c) ==
    IF \E i \in 1..Len(UpperCase) : UpperCase[i] = c
    THEN LowerCase[CHOOSE i \in 1..Len(UpperCase) : UpperCase[i] = c]
    ELSE IF c \in NoLowerForm
    THEN CHOOSE x \in {} : TRUE
    ELSE c

\* whether the capital sigma at position i of s takes its final form: the
\* nearest character before it that is not skipped is cased, and the nearest
\* one after it that is not skipped, if any, is not
FinalSigma(s, i) ==
    LET before == {j \in 1..(i - 1) : SubSeq(s, j, j) \notin CaseIgnorable}
        after  == {j \in (i + 1)..Len(s) : SubSeq(s, j, j) \notin CaseIgnorable}
        last   == CHOOSE j \in before : \A k \in before : k <= j
        first  == CHOOSE j \in after : \A k \in after : j <= k
    IN  /\ before # {}
        /\ SubSeq(s, last, last) \in Cased
        /\ after # {} => SubSeq(s, first, first) \notin Cased

\* the lower-case form of s from position i on
RECURSIVE LowerAt(_, _)
LowerAt(s, i) ==
    IF i > Len(s) THEN ""
    ELSE (IF SubSeq(s, i, i) = "Σ" /\ FinalSigma(s, i)
          THEN "ς"
          ELSE LowerChar(SubSeq(s, i, i))) \o LowerAt(s, i + 1)

\* str.lower()
Lower(s) == LowerAt(s, 1)

\* x in s, for strings
IsSubstring(x, s) ==
    \E i \in 1..(Len(s) - Len(x) + 1) : SubSeq(s, i, i + Len(x) - 1) = x

(* ------------------------------- values -------------------------------- *)
NumericText == {"2430000.5", "2430001.5", "12.3", "13.1", "0.1"}
InfText == {"inf", "-inf"}

\* pd.to_numeric(x, errors='coerce') on one cell
ToNumeric(s) ==
    IF s \in NumericText THEN s
    ELSE IF s \in InfText THEN s
    ELSE "nan"

IsNaN(v) == v = "nan"
IsFinite(v) == v \notin ({"nan"} \cup InfText)

\* what a call gives back: None, a table, or an exception.  refdtype is the
\* dtype of the table's reference column, 'str' or 'object'.
None == [none |-> TRUE, raised |-> FALSE, rows |-> <<>>, refdtype |-> "str"]
Tbl(rows) == [none |-> FALSE, raised |-> FALSE, rows |-> rows, refdtype |-> "str"]
\* astropy's TypeError('Empty table cannot have column set to scalar value')
TypeError == [none |-> FALSE, raised |-> TRUE, rows |-> <<>>, refdtype |-> "str"]
\* try: ... except Exception: return None
ExceptNone(t) == IF t.raised THEN None ELSE t

\* str.strip(chars) on a label: drop leading and trailing tokens in toks
RECURSIVE LStrip(_, _)
LStrip(b, toks) ==
    IF b # <<>> /\ Head(b) \in toks THEN LStrip(Tail(b), toks) ELSE b
RECURSIVE RStrip(_, _)
RStrip(b, toks) ==
    IF b # <<>> /\ b[Len(b)] \in toks THEN RStrip(SubSeq(b, 1, Len(b) - 1), toks) ELSE b
Strip(b, toks) == RStrip(LStrip(b, toks), toks)

\* '(' in label
HasParen(b) == \E i \in 1..Len(b) : IsSubstring("(", b[i])

MapSeq(s, f(_)) == [i \in 1..Len(s) |-> f(s[i])]

(* ------------------------- parsers.py: sanitizer ----------------------- *)
\* A table is [cols: the set of its column names, rows: its rows]; a row
\* holds the cells of the time, mag, magerr, band and reference fields,
\* whatever the name of the column that carries them.
Canonical == {"time", "mag", "magerr", "band", "reference"}

\* tbl.rename_column(specific, generic) for every pair of column_map whose
\* specific name is a column; column_map is a set of <<generic, specific>>
RenameColumns(cols, column_map) ==
    (cols \ {m[2] : m \in {x \in column_map : x[2] \in cols}})
        \cup {m[1] : m \in {x \in column_map : x[2] \in cols}}

\* the row mask ~np.isnan(time) & ~np.isnan(mag)
KeepRow(time, mag) == ~IsNaN(time) /\ ~IsNaN(mag)

sanitize_and_standardize(tbl, column_map) ==
    LET cols == RenameColumns(tbl.cols, column_map)
        out(r) == [time      |-> ToNumeric(r.time),
                   mag       |-> ToNumeric(r.mag),
                   magerr    |-> IF "magerr" \in cols THEN ToNumeric(r.magerr) ELSE "nan",
                   band      |-> IF "band" \in cols THEN r.band ELSE <<"UNKNOWN">>,
                   reference |-> IF "reference" \in cols THEN r.reference ELSE "N/A"]
        kept == SelectSeq(MapSeq(tbl.rows, out), LAMBDA r : KeepRow(r.time, r.mag))
    IN  \* line 19: the scalar NaN cannot be set on a table with no row
        IF "magerr" \notin cols /\ Len(tbl.rows) = 0 THEN TypeError
        ELSE IF "time" \notin cols \/ "mag" \notin cols THEN None
        \* lines 24-25: nor can 'UNKNOWN' or 'N/A' on a table the mask emptied
        ELSE IF Len(kept) = 0 /\ ("band" \notin cols \/ "reference" \notin cols)
             THEN TypeError
        ELSE IF Len(kept) > 0 THEN Tbl(kept) ELSE None

(* --------------------------- parsers.py: parsers ----------------------- *)
\* layouts: comma separated, tab separated, separated by two tabs, aligned
\* with runs of two or more spaces, FITS binary table
Fmts == {"csv", "tab", "tab2", "aligned", "fits"}
\* layouts pd.read_csv(sep='\t') splits into the header's columns
TabFmts == {"tab", "tab2"}
\* layouts the regular expression \s{2,} splits into the header's columns
WideFmts == {"tab2", "aligned"}

\* df.rename(columns=...): ren is a set of <<old, new>>
DfRename(cols, ren) ==
    {IF \E m \in ren : m[1] = c THEN (CHOOSE m \in ren : m[1] = c)[2] ELSE c : c \in cols}

CsvRename == {<<"Julian Date", "time">>, <<"Gregorian Day", "day">>,
              <<"Magnitude", "mag">>, <<"Band", "band">>,
              <<"Ref", "reference">>, <<"Magerr", "magerr">>}

\* astype(str) of a band cell: an empty cell reads as NaN, printed 'nan'
AsStr(b) == IF b = <<>> THEN <<"nan">> ELSE b

\* .astype(str).str.strip().str.strip("'").str.strip('"')
CsvBand(b) == Strip(Strip(Strip(AsStr(b), {" "}), {"'"}), {"\""})

\* the columns parse_csv indexes; a missing one raises KeyError
CsvFingerprint(f) ==
    /\ f.fmt = "csv"
    /\ Canonical \subseteq DfRename(f.cols, CsvRename)

parse_csv(f) ==
    IF ~CsvFingerprint(f) THEN None
    ELSE ExceptNone(sanitize_and_standardize(
            [cols |-> Canonical,
             rows |-> MapSeq(f.rows, LAMBDA r :
                         [time |-> ToNumeric(r.time), mag |-> ToNumeric(r.mag),
                          magerr |-> ToNumeric(r.magerr), band |-> CsvBand(r.band),
                          reference |-> r.reference])],
            {}))

TxtTokens == {"Julian Date", "Gregorian Day", "Magnitude", "Indmag and Band"}
TxtRename == {<<"Julian Date", "time">>, <<"Magnitude", "mag">>,
              <<"Indmag and Band", "band">>}

\* all(x in header for x in [...]) on the first line of a text file: each
\* token is looked for as a piece of the line, so a longer column name that
\* holds it will do
TxtFingerprint(f) ==
    /\ f.fmt # "fits"
    /\ \A x \in TxtTokens : \E c \in f.cols : IsSubstring(x, c)

parse_txt(f) ==
    IF ~TxtFingerprint(f) THEN None
    ELSE ExceptNone(sanitize_and_standardize(
            [cols |-> IF f.fmt \in TabFmts THEN DfRename(f.cols, TxtRename)
                      ELSE {"header line"},
             rows |-> f.rows],
            {}))

\* the texts on a data line: its cells, with the day and the notes cells
LineCells(r) ==
    {r.time, "day", r.mag, r.magerr, r.reference, "notes"}
        \cup {r.band[i] : i \in 1..Len(r.band)}
\* '>' in line or '<' in line
HasLimitMarker(r) ==
    \E c \in LineCells(r) : IsSubstring(">", c) \/ IsSubstring("<", c)
\* the characters str.strip() removes: those for which str.isspace() holds.
\* There are 29 of them.  The set holds the 13 a string of this module can
\* be made of, in this order: U+0020, U+0009, U+000A, U+000D, U+000C, and,
\* written as themselves, U+000B, U+001C, U+001D, U+001E, U+001F, U+0085,
\* U+00A0, U+1680.  The other 16 (U+2000 to U+200A, U+2028, U+2029, U+202F,
\* U+205F, U+3000) cannot be written in a string here, so no text of the
\* model holds one.
Whitespace ==
    {" ", "\t", "\n", "\r", "\f",
     "", "", "", "", "", "", " ", " "}
RECURSIVE LStripStr(_)
LStripStr(s) ==
    IF Len(s) > 0 /\ SubSeq(s, 1, 1) \in Whitespace
    THEN LStripStr(SubSeq(s, 2, Len(s))) ELSE s
RECURSIVE RStripStr(_)
RStripStr(s) ==
    IF Len(s) > 0 /\ SubSeq(s, Len(s), Len(s)) \in Whitespace
    THEN RStripStr(SubSeq(s, 1, Len(s) - 1)) ELSE s
\* str.strip()
StripStr(s) == RStripStr(LStripStr(s))
\* s.strip().startswith('#')
StartsWithHash(s) == Len(StripStr(s)) > 0 /\ SubSeq(StripStr(s), 1, 1) = "#"
\* line.strip().startswith('#'): the first text of a line is its time cell,
\* or the day cell when the time cell is blank
IsComment(r) == StartsWithHash(r.time)

\* the filter of lines 161-164 on the header line, which starts with the
\* name of the time column as the data lines start with the time cell
HeaderFiltered(f) ==
    \/ \E c \in f.cols : IsSubstring(">", c) \/ IsSubstring("<", c)
    \/ \E c \in f.cols : IsSubstring("Julian Date", c) /\ StartsWithHash(c)

\* lines 161-171: comments and limits are stripped from all the lines, the
\* first line left is taken for the header and the others are the data
\* lines; when the header itself was stripped, the first data row left
\* stands in for it and is lost
NotesDataLines(f) ==
    LET kept == SelectSeq(f.rows, LAMBDA r : ~IsComment(r) /\ ~HasLimitMarker(r))
    IN  IF ~HeaderFiltered(f) THEN kept
        ELSE IF kept = <<>> THEN <<>>
        ELSE Tail(kept)

\* the fields sep=r'\s{2,}' splits a data line of a seven-column file into:
\* time, day, magnitude, error, band, reference, notes.  An empty cell and
\* the whitespace around a cell run into the separator, so the later fields
\* of a line with an empty cell move left.  The day and the notes cells are
\* taken to be filled.
NotesFields(r) ==
    SelectSeq(<< <<r.time>>, <<"day">>, <<r.mag>>, <<r.magerr>>,
                 Strip(r.band, {" "}), <<r.reference>>, <<"notes">> >>,
              LAMBDA c : c # <<>> /\ c # <<"">>)

\* at least a header and a data line, and a first data line of seven fields
\* for the seven names assigned to df.columns
NotesFingerprint(f) ==
    /\ f.fmt # "fits"
    /\ Len(NotesDataLines(f)) >= 1
    /\ f.fmt \in WideFmts
    /\ Cardinality(f.cols) = 7
    /\ Len(NotesFields(NotesDataLines(f)[1])) = 7

\* df['magerr'].replace({'null': nan, 'nul': nan})
NullToNaN(s) == IF s \in {"null", "nul"} THEN "nan" ELSE s

\* a field read as text, and pd.to_numeric of it; a field the line does not
\* have is NaN
FieldText(c) == IF Len(c) = 1 THEN c[1] ELSE "nan"
NotesRow(r) ==
    LET fields == NotesFields(r)
        fld(k) == IF k <= Len(fields) THEN fields[k] ELSE <<"nan">>
    IN  [time |-> ToNumeric(FieldText(fld(1))),
         mag |-> ToNumeric(FieldText(fld(3))),
         magerr |-> ToNumeric(NullToNaN(FieldText(fld(4)))),
         band |-> fld(5),
         reference |-> FieldText(fld(6))]

\* line 190: the reference column is set from a pandas Series of Python
\* strings, which makes a column of dtype object
WithObjectReference(t) == IF t.none \/ t.raised THEN t ELSE [t EXCEPT !.refdtype = "object"]

parse_notes_and_limits(f) ==
    IF ~NotesFingerprint(f) THEN None
    ELSE ExceptNone(WithObjectReference(sanitize_and_standardize(
            [cols |-> Canonical, rows |-> MapSeq(NotesDataLines(f), NotesRow)],
            {})))

FitMap == {<<"time", "JD">>, <<"mag", "m">>}

\* a FITS file with a data extension that has a band column
FitFingerprint(f) == f.fmt = "fits" /\ "band" \in f.cols

parse_fit_vizier(f) ==
    IF ~FitFingerprint(f) THEN None
    ELSE ExceptNone(sanitize_and_standardize(
            [cols |-> f.cols,
             rows |-> SelectSeq(f.rows, LAMBDA r : ~HasParen(r.band))],
            FitMap))

\* mutant: parse_notes_and_limits declared before parse_txt
ALL_PARSERS_Reordered ==
    <<"parse_csv", "parse_notes_and_limits", "parse_txt", "parse_fit_vizier">>

ALL_PARSERS == <<"parse_csv", "parse_txt", "parse_notes_and_limits", "parse_fit_vizier">>

CallParser(p, f) ==
    CASE p = "parse_csv" -> parse_csv(f)
      [] p = "parse_txt" -> parse_txt(f)
      [] p = "parse_notes_and_limits" -> parse_notes_and_limits(f)
      [] p = "parse_fit_vizier" -> parse_fit_vizier(f)

Fingerprint(p, f) ==
    CASE p = "parse_csv" -> CsvFingerprint(f)
      [] p = "parse_txt" -> TxtFingerprint(f)
      [] p = "parse_notes_and_limits" -> NotesFingerprint(f)
      [] p = "parse_fit_vizier" -> FitFingerprint(f)

(* ---------------------- process_data.py: parser chain ------------------ *)
\* data is not None and len(data) > 0
Succeeded(data) == ~data.none /\ Len(data.rows) > 0

\* mutant: no break, every parser is called and the last success is taken
RECURSIVE TryParsers_NoBreak(_, _, _)
TryParsers_NoBreak(f, i, log) ==
    IF i > Len(ALL_PARSERS)
    THEN LET ok == {k \in 1..Len(log) : Succeeded(log[k].data)}
         IN  IF ok = {} THEN [log |-> log, found |-> FALSE, data |-> None]
             ELSE [log |-> log, found |-> TRUE,
                   data |-> log[CHOOSE k \in ok : \A m \in ok : m <= k].data]
    ELSE TryParsers_NoBreak(f, i + 1,
            Append(log, [parser |-> ALL_PARSERS[i],
                         data |-> CallParser(ALL_PARSERS[i], f)]))

\* mutant: no for-else, the last parser's result is appended whatever it is
RECURSIVE TryParsers_NoElse(_, _, _)
TryParsers_NoElse(f, i, log) ==
    LET data == CallParser(ALL_PARSERS[i], f)
        log1 == Append(log, [parser |-> ALL_PARSERS[i], data |-> data])
    IN  IF Succeeded(data) \/ i = Len(ALL_PARSERS)
        THEN [log |-> log1, found |-> TRUE, data |-> data]
        ELSE TryParsers_NoElse(f, i + 1, log1)

\* for parser_func in ALL_PARSERS: ... break / else: warning.  log lists the
\* parsers called on the file, in call order, each with what it returned.
RECURSIVE TryParsers(_, _, _)
TryParsers(f, i, log) ==
    IF i > Len(ALL_PARSERS) THEN [log |-> log, found |-> FALSE, data |-> None]
    ELSE LET data == CallParser(ALL_PARSERS[i], f)
             log1 == Append(log, [parser |-> ALL_PARSERS[i], data |-> data])
         IN  IF Succeeded(data) THEN [log |-> log1, found |-> TRUE, data |-> data]
             ELSE TryParsers(f, i + 1, log1)

(* -------------------- process_data.py: normalization ------------------- *)
\* vstack(photometry_tables, join_type='outer'): every table has the same
\* five columns, so the union is the concatenation of the rows
RECURSIVE Vstack(_)
Vstack(tables) ==
    IF tables = <<>> THEN <<>> ELSE Head(tables).rows \o Vstack(Tail(tables))

\* vstack raises TableMergeError when the reference columns of two tables
\* have dtypes of different kinds (object against str)
MergeConflict(tables) ==
    \E i, j \in 1..Len(tables) : tables[i].refdtype # tables[j].refdtype

SamePoint(r, q) == r.time = q.time /\ r.mag = q.mag

\* mutant: keep='last'
DropDuplicates_KeepLast(rows) ==
    LET last(i) == \A j \in (i + 1)..Len(rows) : ~SamePoint(rows[j], rows[i])
        F[i \in 0..Len(rows)] ==
            IF i = 0 THEN <<>>
            ELSE IF last(i) THEN Append(F[i - 1], rows[i]) ELSE F[i - 1]
    IN  F[Len(rows)]

\* drop_duplicates(subset=['time', 'mag'], keep='first')
DropDuplicates(rows) ==
    LET first(i) == \A j \in 1..(i - 1) : ~SamePoint(rows[j], rows[i])
        F[i \in 0..Len(rows)] ==
            IF i = 0 THEN <<>>
            ELSE IF first(i) THEN Append(F[i - 1], rows[i]) ELSE F[i - 1]
    IN  F[Len(rows)]

\* df['band'].str.strip()
StripBand(r) == [r EXCEPT !.band = Strip(r.band, {" "})]

\* mutant: the filtered frame is not assigned back
DropParenRows_Unassigned(rows) == rows

\* df[~df['band'].str.contains(r'\(', na=False)]
DropParenRows(rows) == SelectSeq(rows, LAMBDA r : ~HasParen(r.band))

\* mutant: labels missing from BAND_MAP are not filled back
MapBand_NoFill(b) == IF b \in DOMAIN BAND_MAP THEN <<BAND_MAP[b]>> ELSE <<"nan">>

\* df['band'].map(BAND_MAP).fillna(df['band'])
MapBand(b) == IF b \in DOMAIN BAND_MAP THEN <<BAND_MAP[b]>> ELSE b

\* df['band'].isin(KNOWN_BANDS)
IsKnownBand(b) == Len(b) = 1 /\ b[1] \in KNOWN_BANDS

\* mutant: the vocabulary filter is not assigned back
KeepKnownRows_Unassigned(rows) == rows

KeepKnownRows(rows) == SelectSeq(rows, LAMBDA r : IsKnownBand(r.band))

\* lines 73-77: the frame the diagnostics are printed from
BeforeMapping(tables) ==
    DropParenRows(MapSeq(DropDuplicates(Vstack(tables)), StripBand))

\* lines 73-83
NormalizeTables(tables) ==
    KeepKnownRows(MapSeq(BeforeMapping(tables),
                         LAMBDA r : [r EXCEPT !.band = MapBand(r.band)]))

Bands(rows) == {rows[i].band : i \in 1..Len(rows)}

(* -------------------- process_data.py: flux conversion ----------------- *)
\* np.nan_to_num(x, nan=-999.0)
NanToNum(v) ==
    CASE v = "nan" -> "-999.0"
      [] v = "inf" -> "1.7976931348623157e+308"
      [] v = "-inf" -> "-1.7976931348623157e+308"
      [] OTHER -> v

\* mutant: the magnitude error is tested with np.isnan, so an infinite one
\* is multiplied into the flux
FluxRow_NanOnly(r, zpsys) ==
    LET flux == [zpsys |-> zpsys, band |-> r.band, mag |-> r.mag]
    IN  [time |-> r.time, band |-> r.band, flux |-> flux,
         fluxerr |-> IF ~IsNaN(r.magerr)
                     THEN [sentinel |-> FALSE, flux |-> flux, magerr |-> r.magerr]
                     ELSE [sentinel |-> TRUE, flux |-> flux, magerr |-> "-999.0"],
         mag |-> r.mag, magerr |-> NanToNum(r.magerr),
         zp |-> "25.0", zpsys |-> zpsys]

\* lines 104-116; a flux is kept as the arguments it is computed from: the
\* magnitude system, the band and the magnitude.  A flux error that is not
\* the sentinel is kept as its two factors, the flux and the magnitude
\* error scaled by 0.4 * ln(10).
FluxRow(r, zpsys) ==
    LET flux == [zpsys |-> zpsys, band |-> r.band, mag |-> r.mag]
    IN  [time |-> r.time, band |-> r.band, flux |-> flux,
         fluxerr |-> IF IsFinite(r.magerr)
                     THEN [sentinel |-> FALSE, flux |-> flux, magerr |-> r.magerr]
                     ELSE [sentinel |-> TRUE, flux |-> flux, magerr |-> "-999.0"],
         mag |-> r.mag, magerr |-> NanToNum(r.magerr),
         zp |-> "25.0", zpsys |-> zpsys]

(* ------------------------------- inputs -------------------------------- *)
rA == [time |-> "2430000.5", mag |-> "12.3", magerr |-> "0.1",
       band |-> <<"B">>, reference |-> "IAUC 1"]
rB == [time |-> "2430000.5", mag |-> "12.3", magerr |-> "null",
       band |-> <<" ", "V", " ">>, reference |-> "IAUC 2"]
rC == [time |-> "2430000.5", mag |-> "12.3", magerr |-> "null",
       band |-> <<"(", "B-V", ")">>, reference |-> "IAUC 3"]
rD == [time |-> "2430001.5", mag |-> "13.1", magerr |-> "0.1",
       band |-> <<"xyz">>, reference |-> "IAUC 1"]
rE == [time |-> "2430001.5", mag |-> "bad", magerr |-> "",
       band |-> <<>>, reference |-> ""]
rF == [time |-> "2430001.5", mag |-> "12.3", magerr |-> "inf",
       band |-> <<"sdssg">>, reference |-> "IAUC 2"]
Rows == {rA, rB, rC, rD, rE, rF}

RowSeqs == UNION {[1..n -> Rows] : n \in 0..MaxRows}

CsvCols == {"Julian Date", "Magnitude", "Magerr", "Band", "Ref"}
CsvNoErrCols == {"Julian Date", "Magnitude", "Band"}
NotesCols == {"Julian Date", "Gregorian Day", "Magnitude", "Uncertainty",
              "Indmag and Band", "Reference Text", "Notes"}
\* a header of seven names, one of them holding a limit sign
NotesLimitCols == {"Julian Date", "Gregorian Day", "Magnitude (<lim)", "Uncertainty",
                   "Indmag and Band", "Reference Text", "Notes"}
\* a header whose day column has a longer name
TxtLongCols == {"Julian Date", "Gregorian Day (UT)", "Magnitude", "Indmag and Band"}
FitCols == {"JD", "m", "band"}
FitNoBandCols == {"JD", "m"}

Shapes == {[fmt |-> "csv", cols |-> CsvCols],
           [fmt |-> "csv", cols |-> CsvNoErrCols],
           [fmt |-> "tab", cols |-> TxtTokens],
           [fmt |-> "tab", cols |-> TxtLongCols],
           [fmt |-> "aligned", cols |-> TxtTokens],
           [fmt |-> "aligned", cols |-> NotesCols],
           [fmt |-> "tab2", cols |-> NotesCols],
           [fmt |-> "aligned", cols |-> NotesLimitCols],
           [fmt |-> "fits", cols |-> FitCols],
           [fmt |-> "fits", cols |-> FitNoBandCols]}

Files == {[fmt |-> s.fmt, cols |-> s.cols, rows |-> rs] : s \in Shapes, rs \in RowSeqs}

NoFile == [fmt |-> "absent", cols |-> {}, rows |-> <<>>]

MagSystems == {"Vega", "VEGA", "Johnson"}

\* the outcome of the parser loop of lines 60-67 on each file, tabulated
ParsedFiles == [f \in Files |-> TryParsers(f, 1, <<>>)] @@ [f \in {} |-> None]

(* ------------------------------ the batch ------------------------------ *)
Init ==
    /\ batch = "running"
    /\ obj = 0
    /\ sn_info = [files |-> 0]
    /\ pc = "idle"
    /\ fileIdx = 0
    /\ curFile = NoFile
    /\ invoked = <<>>
    /\ photometry_tables = <<>>
    /\ warnings = 0
    /\ uniqueBefore = {}
    /\ unmappedBands = {}
    /\ df = <<>>
    /\ lookups = 0
    /\ zp_system_str = ""
    /\ final_table = <<>>
    /\ status = [o \in 1..NumObjects |-> "pending"]
    /\ written = {}
    /\ sanPc = "idle"
    /\ sanIn = [cols |-> {}, rows |-> <<>>]
    /\ sanMap = {}
    /\ sanOut = None

sanVars == <<sanPc, sanIn, sanMap, sanOut>>

\* the driver loop takes the next object of SUPERNOVAE, with the number of
\* files its entry declares; lines 52-54
StartObject ==
    /\ batch = "running" /\ pc = "idle" /\ obj < NumObjects
    /\ \E n \in 0..MaxFiles : sn_info' = [files |-> n]
    /\ obj' = obj + 1
    /\ pc' = "files"
    /\ fileIdx' = 0
    /\ curFile' = NoFile
    /\ invoked' = <<>>
    /\ photometry_tables' = <<>>
    /\ warnings' = 0
    /\ uniqueBefore' = {}
    /\ unmappedBands' = {}
    /\ df' = <<>>
    /\ lookups' = 0
    /\ zp_system_str' = ""
    /\ final_table' = <<>>
    /\ status' = [status EXCEPT ![obj + 1] = "processing"]
    /\ UNCHANGED <<batch, written, sanVars>>

\* one iteration of the loop over the declared files; lines 56-67
ReadFile ==
    /\ batch = "running" /\ pc = "files" /\ fileIdx < sn_info.files
    /\ fileIdx' = fileIdx + 1
    /\ \/ /\ curFile' = NoFile
          /\ invoked' = <<>>
          /\ UNCHANGED <<photometry_tables, warnings>>
       \/ \E f \in Files :
            LET res == ParsedFiles[f] IN
            /\ curFile' = f
            /\ invoked' = res.log
            /\ photometry_tables' =
                 IF res.found THEN Append(photometry_tables, res.data)
                 ELSE photometry_tables
            /\ warnings' = IF res.found THEN warnings ELSE warnings + 1
    /\ UNCHANGED <<batch, obj, sn_info, pc, uniqueBefore, unmappedBands, df,
                   lookups, zp_system_str, final_table, status, written, sanVars>>

\* lines 69-90; the record of the last file read is dropped with the loop.
\* A TableMergeError of vstack (line 73) leaves process_supernova and the
\* driver loop.
Normalize ==
    /\ batch = "running" /\ pc = "files" /\ fileIdx = sn_info.files
    /\ IF photometry_tables = <<>>
       THEN /\ status' = [status EXCEPT ![obj] = "skipped_nodata"]
            /\ pc' = "idle"
            /\ UNCHANGED <<batch, uniqueBefore, unmappedBands, df>>
       ELSE IF MergeConflict(photometry_tables)
       THEN /\ batch' = "aborted"
            /\ status' = [status EXCEPT ![obj] = "raised"]
            /\ UNCHANGED <<pc, uniqueBefore, unmappedBands, df>>
       ELSE /\ uniqueBefore' = Bands(BeforeMapping(photometry_tables))
            /\ unmappedBands' =
                 {b \in Bands(BeforeMapping(photometry_tables)) : b \notin DOMAIN BAND_MAP}
            /\ df' = NormalizeTables(photometry_tables)
            /\ IF NormalizeTables(photometry_tables) = <<>>
               THEN status' = [status EXCEPT ![obj] = "skipped_empty"] /\ pc' = "idle"
               ELSE pc' = "normalized" /\ UNCHANGED status
            /\ UNCHANGED batch
    /\ curFile' = NoFile
    /\ invoked' = <<>>
    /\ UNCHANGED <<obj, sn_info, fileIdx, photometry_tables,
                   warnings, lookups, zp_system_str, final_table, written, sanVars>>

\* mutant: the return of line 93 is missing, a failed lookup falls through to
\* the conversion
Lookup_NoReturn ==
    /\ batch = "running" /\ pc = "normalized"
    /\ lookups' = lookups + 1
    /\ \E ok \in BOOLEAN :
          IF ok THEN pc' = "metadata" /\ UNCHANGED status
          ELSE pc' = "metadata" /\ status' = [status EXCEPT ![obj] = "skipped_nometa"]
    /\ UNCHANGED <<batch, obj, sn_info, fileIdx, curFile, invoked, photometry_tables,
                   warnings, uniqueBefore, unmappedBands, df, zp_system_str,
                   final_table, written, sanVars>>

\* lines 92-93: get_sn_metadata answers or fails
Lookup ==
    /\ batch = "running" /\ pc = "normalized"
    /\ lookups' = lookups + 1
    /\ \E ok \in BOOLEAN :
          IF ok THEN pc' = "metadata" /\ UNCHANGED status
          ELSE pc' = "idle" /\ status' = [status EXCEPT ![obj] = "skipped_nometa"]
    /\ UNCHANGED <<batch, obj, sn_info, fileIdx, curFile, invoked, photometry_tables,
                   warnings, uniqueBefore, unmappedBands, df, zp_system_str,
                   final_table, written, sanVars>>

\* lines 95-117: the mag_system of the object's entry is read here (line
\* 101); get_magsystem raises on a name it does not know
Convert ==
    /\ batch = "running" /\ pc = "metadata"
    /\ \E ms \in MagSystems :
          /\ zp_system_str' = Lower(ms)
          /\ IF Lower(ms) \in MagSystemRegistry
             THEN /\ final_table' = MapSeq(df, LAMBDA r : FluxRow(r, Lower(ms)))
                  /\ pc' = "converted"
                  /\ UNCHANGED <<batch, status>>
             ELSE /\ batch' = "aborted"
                  /\ status' = [status EXCEPT ![obj] = "raised"]
                  /\ UNCHANGED <<final_table, pc>>
    /\ UNCHANGED <<obj, sn_info, fileIdx, curFile, invoked, photometry_tables,
                   warnings, uniqueBefore, unmappedBands, df, lookups, written, sanVars>>

\* lines 119-125: makedirs and write_lc succeed or raise OSError
WriteFile ==
    /\ batch = "running" /\ pc = "converted"
    /\ \E ok \in BOOLEAN :
          IF ok
          THEN /\ written' = written \cup {obj}
               /\ status' = [status EXCEPT ![obj] = "emitted"]
               /\ pc' = "idle"
               /\ UNCHANGED batch
          ELSE /\ batch' = "aborted"
               /\ status' = [status EXCEPT ![obj] = "raised"]
               /\ UNCHANGED <<written, pc>>
    /\ UNCHANGED <<obj, sn_info, fileIdx, curFile, invoked, photometry_tables,
                   warnings, uniqueBefore, unmappedBands, df, lookups, zp_system_str,
                   final_table,
                   sanVars>>

\* the loop over SUPERNOVAE ends; lines 127-129
Finish ==
    /\ batch = "running" /\ pc = "idle" /\ obj = NumObjects
    /\ batch' = "done"
    /\ UNCHANGED <<obj, sn_info, pc, fileIdx, curFile, invoked, photometry_tables,
                   warnings, uniqueBefore, unmappedBands, df, lookups, zp_system_str,
                   final_table,
                   status, written, sanVars>>

Next == StartObject \/ ReadFile \/ Normalize \/ Lookup \/ Convert \/ WriteFile \/ Finish

Spec == Init /\ [][Next]_vars

(* ----------------------- the sanitizer on its own ---------------------- *)
SanRows == [time : {"2430000.5", "bad", "inf", ""},
            mag : {"12.3", "bad", "inf", "nan"},
            magerr : {"0.1", "null"},
            band : {<<"B">>},
            reference : {"IAUC 1"}]
SanRowSeqs == UNION {[1..n -> SanRows] : n \in 0..MaxSanRows}
SanColSets == {Canonical, {"time", "mag"}, {"JD", "m", "band"}, {"mag", "band"}}
SanMaps == {{}, FitMap}

\* a caller hands a table and a column map to the sanitizer
SanitizeEnter ==
    /\ sanPc = "idle"
    /\ \E cols \in SanColSets, rows \in SanRowSeqs, cmap \in SanMaps :
          /\ sanIn' = [cols |-> cols, rows |-> rows]
          /\ sanMap' = cmap
    /\ sanPc' = "called"
    /\ UNCHANGED <<sanOut, batch, obj, sn_info, pc, fileIdx, curFile, invoked,
                   photometry_tables, warnings, uniqueBefore, unmappedBands, df,
                   lookups, zp_system_str, final_table, status, written>>

\* lines 9-29: the call returns None or a table, or raises
SanitizeReturn ==
    /\ sanPc = "called"
    /\ sanOut' = sanitize_and_standardize(sanIn, sanMap)
    /\ sanPc' = IF sanitize_and_standardize(sanIn, sanMap).raised
                THEN "raised" ELSE "returned"
    /\ UNCHANGED <<sanIn, sanMap, batch, obj, sn_info, pc, fileIdx, curFile, invoked,
                   photometry_tables, warnings, uniqueBefore, unmappedBands, df,
                   lookups, zp_system_str, final_table, status, written>>

NextSanitize == SanitizeEnter \/ SanitizeReturn

SpecSanitize == Init /\ [][NextSanitize]_vars

(* =============================== claims ================================ *)
\* the declaration order of ALL_PARSERS in parsers.py, and what the parser
\* declared k-th returns on a file
DeclaredOrder ==
    <<"parse_csv", "parse_txt", "parse_notes_and_limits", "parse_fit_vizier">>
ReturnedOn ==
    [f \in Files |-> <<parse_csv(f), parse_txt(f), parse_notes_and_limits(f),
                       parse_fit_vizier(f)>>] @@ [f \in {} |-> <<>>]
Returned(k, f) == ReturnedOn[f][k]
Usable(t) == ~t.none /\ ~t.raised /\ Len(t.rows) >= 1
Winners(f) == {k \in 1..4 : Usable(Returned(k, f))}
FirstWinner(f) == CHOOSE k \in Winners(f) : \A m \in Winners(f) : k <= m
MatchingOn ==
    [f \in Files |-> {k \in 1..4 : Fingerprint(DeclaredOrder[k], f)}]
        @@ [f \in {} |-> {}]
Matching(f) == MatchingOn[f]
InvokedNames(log) == [i \in 1..Len(log) |-> log[i].parser]
LastTable == photometry_tables[Len(photometry_tables)]
\* a step of the file loop that read a file that exists
JustRead == fileIdx' = fileIdx + 1 /\ curFile' # NoFile
\* the loop has just handled a file that exists
AtFile == pc = "files" /\ curFile # NoFile

\* C1: on every existing file the parsers are called in declaration order up
\* to and including the first one that returns a table with a row; none is
\* called after it, and exactly that table is appended, once.
C1_FirstSuccessTaken ==
    [][JustRead =>
        IF Winners(curFile') = {}
        THEN InvokedNames(invoked') = DeclaredOrder
        ELSE /\ InvokedNames(invoked') =
                    SubSeq(DeclaredOrder, 1, FirstWinner(curFile'))
             /\ photometry_tables' =
                    Append(photometry_tables,
                           Returned(FirstWinner(curFile'), curFile'))]_vars

\* a file parse_txt parsed although parse_notes_and_limits would parse it too
C1_Witness ==
    /\ AtFile
    /\ Len(invoked) = 2
    /\ Usable(invoked[2].data)
    /\ Usable(parse_notes_and_limits(curFile))
    /\ Len(photometry_tables) = 1

\* C2 as stated: when the fingerprints of two parsers match a file, the
\* later of the two is never attempted and a table taken is the earlier's.
C2_EarlierFingerprintWins ==
    AtFile =>
        \A i, j \in Matching(curFile) :
            i < j =>
                /\ \A e \in 1..Len(invoked) : invoked[e].parser # DeclaredOrder[j]
                /\ Winners(curFile) # {} => LastTable = Returned(i, curFile)

\* C2 amended: when the fingerprints of two parsers match a file, the table
\* taken is that of the earliest declared parser that returns a table with a
\* row, and no parser declared after that one is attempted.
C2_EarliestSuccessWins ==
    (AtFile /\ Cardinality(Matching(curFile)) >= 2 /\ Winners(curFile) # {}) =>
        /\ photometry_tables # <<>>
        /\ LastTable = Returned(FirstWinner(curFile), curFile)
        /\ \A e \in 1..Len(invoked) : \A j \in 1..4 :
               invoked[e].parser = DeclaredOrder[j] => j <= FirstWinner(curFile)

\* a file two parsers would both parse, taken from the earlier one
C2_Witness ==
    /\ AtFile
    /\ Cardinality(Winners(curFile)) >= 2
    /\ Returned(2, curFile).rows # Returned(3, curFile).rows
    /\ LastTable = Returned(2, curFile)

\* C3: a file no parser can use appends no table, records one warning, does
\* not raise, and leaves the loop at the next declared file of the object.
C3_UnparsableFileSkipped ==
    [][(JustRead /\ Winners(curFile') = {}) =>
        /\ InvokedNames(invoked') = DeclaredOrder
        /\ photometry_tables' = photometry_tables
        /\ warnings' = warnings + 1
        /\ batch' = "running" /\ pc' = "files" /\ obj' = obj
        /\ status' = status]_vars

\* after a file that no parser could use, the next file was read and parsed
C3_Witness ==
    /\ AtFile
    /\ fileIdx = 2
    /\ warnings = 1
    /\ Winners(curFile) # {}
    /\ Len(photometry_tables) = 1

\* C4: every row the sanitizer returns has a finite time and a finite
\* magnitude.
C4_OutputFinite ==
    (sanPc = "returned" /\ ~sanOut.none) =>
        \A i \in 1..Len(sanOut.rows) :
            /\ sanOut.rows[i].time \notin {"nan", "inf", "-inf"}
            /\ sanOut.rows[i].mag \notin {"nan", "inf", "-inf"}

\* a cell that reads as a number (NaN is the missing value, not a number)
NumericCell(s) ==
    s \in {"2430000.5", "2430001.5", "12.3", "13.1", "0.1", "inf", "-inf"}
SanHasColumn(name) ==
    \/ name \in sanIn.cols /\ \A m \in sanMap : m[2] # name
    \/ \E m \in sanMap : m[1] = name /\ m[2] \in sanIn.cols
SanSurvivors ==
    SelectSeq(sanIn.rows,
              LAMBDA r : /\ SanHasColumn("time") /\ SanHasColumn("mag")
                         /\ NumericCell(r.time) /\ NumericCell(r.mag))

\* C5: on any input table the sanitizer returns: in order, exactly the input
\* rows whose time and magnitude are both numeric, and None exactly when
\* there is no such row.
C5_ExactlyNumericRows ==
    sanPc \in {"returned", "raised"} =>
        /\ sanPc = "returned"
        /\ IF SanSurvivors = <<>> THEN sanOut.none
           ELSE /\ ~sanOut.none
                /\ Len(sanOut.rows) = Len(SanSurvivors)
                /\ \A i \in 1..Len(SanSurvivors) :
                      /\ sanOut.rows[i].time = SanSurvivors[i].time
                      /\ sanOut.rows[i].mag = SanSurvivors[i].mag
                      /\ sanOut.rows[i].band =
                            IF SanHasColumn("band") THEN SanSurvivors[i].band
                            ELSE <<"UNKNOWN">>
                      /\ sanOut.rows[i].reference =
                            IF SanHasColumn("reference") THEN SanSurvivors[i].reference
                            ELSE "N/A"

\* process_supernova has returned for the current object
ObjectOver == pc = "idle" /\ obj > 0
\* normalization has run on the current object's tables
NormalizationDone ==
    \/ pc \in {"normalized", "metadata", "converted"}
    \/ /\ pc = "idle" /\ obj > 0
       /\ status[obj] \in {"skipped_empty", "skipped_nometa", "emitted"}
\* the rows of the object's tables in file declaration order
AllRows == Vstack(photometry_tables)
FirstOccurrence(r) ==
    AllRows[CHOOSE i \in 1..Len(AllRows) :
                /\ SamePoint(AllRows[i], r)
                /\ \A j \in 1..(i - 1) : ~SamePoint(AllRows[j], r)]
Trimmed(b) == Strip(b, {" "})
Aliased(b) == IF b \in DOMAIN BAND_MAP THEN <<BAND_MAP[b]>> ELSE b

\* C6: after normalization no two rows share a (time, magnitude) pair, and a
\* retained row carries the magnitude error, the reference and the (trimmed
\* and aliased) band of the first row with its pair in file order.
C6_FirstOccurrenceKept ==
    NormalizationDone =>
        /\ \A i, j \in 1..Len(df) : i # j => ~SamePoint(df[i], df[j])
        /\ \A i \in 1..Len(df) :
              /\ df[i].magerr = FirstOccurrence(df[i]).magerr
              /\ df[i].reference = FirstOccurrence(df[i]).reference
              /\ df[i].band = Aliased(Trimmed(FirstOccurrence(df[i]).band))

\* two files gave the same point with different bands and references, and
\* the point is in the set
C6_Witness ==
    /\ NormalizationDone
    /\ Len(photometry_tables) = 2
    /\ \E i \in 1..Len(photometry_tables[1].rows),
          j \in 1..Len(photometry_tables[2].rows) :
          /\ SamePoint(photometry_tables[1].rows[i], photometry_tables[2].rows[j])
          /\ photometry_tables[1].rows[i].reference # photometry_tables[2].rows[j].reference
          /\ photometry_tables[1].rows[i].magerr # photometry_tables[2].rows[j].magerr
          /\ \E k \in 1..Len(df) : SamePoint(df[k], photometry_tables[1].rows[i])

\* C7: no label with a '(' is in the frame the diagnostics are printed from,
\* in the normalized set or in the table that is written.
C7_NoParenLabel ==
    /\ \A b \in uniqueBefore \cup unmappedBands : \A i \in 1..Len(b) : b[i] # "("
    /\ \A i \in 1..Len(df) : \A k \in 1..Len(df[i].band) : df[i].band[k] # "("
    /\ \A i \in 1..Len(final_table) :
          \A k \in 1..Len(final_table[i].band) : final_table[i].band[k] # "("

\* an object whose tables held a parenthesised label was normalized and written
C7_Witness ==
    /\ pc = "idle" /\ obj > 0 /\ status[obj] = "emitted"
    /\ \E i \in 1..Len(AllRows) : \E k \in 1..Len(AllRows[i].band) :
          AllRows[i].band[k] = "("

InVocabulary(b) == Len(b) = 1 /\ b[1] \in KNOWN_BANDS
\* the rows normalization must retain, by the alias table and the vocabulary
ExpectedSet ==
    SelectSeq(MapSeq(BeforeMapping(photometry_tables),
                     LAMBDA r : [r EXCEPT !.band = Aliased(r.band)]),
              LAMBDA r : InVocabulary(r.band))

\* C8: a trimmed label that is a key of BAND_MAP is replaced by its value,
\* any other label is left as it is, and exactly the rows whose label is then
\* in KNOWN_BANDS are retained; every band of the set and of the written
\* table is in KNOWN_BANDS, and dropping the others raises nothing.
C8_ClosedVocabulary ==
    /\ NormalizationDone => df = ExpectedSet
    /\ (pc = "normalized" \/ (ObjectOver /\ status[obj] = "skipped_empty")) =>
          batch # "aborted"
    /\ \A i \in 1..Len(df) : InVocabulary(df[i].band)
    /\ \A i \in 1..Len(final_table) : InVocabulary(final_table[i].band)

\* an aliased label, a label passed through and a label outside the
\* vocabulary met in one object
C8_Witness ==
    /\ NormalizationDone
    /\ \E i \in 1..Len(AllRows) : Trimmed(AllRows[i].band) = <<"V">>
    /\ \E i \in 1..Len(AllRows) : AllRows[i].band = <<"xyz">>
    /\ \E i \in 1..Len(df) : df[i].band = <<"bessellv">>
    /\ \E i \in 1..Len(df) : df[i].band = <<"sdssg">>
    /\ Len(df) = 2

\* a row that is a usable observation: no parenthesis, label in the
\* vocabulary once trimmed and aliased
UsableRow(r) == ~HasParen(r.band) /\ InVocabulary(Aliased(Trimmed(r.band)))
\* C9: an object that ends with no usable observation (no table, or every
\* row filtered out) is skipped and has no output file; an output file is
\* there only for an object that was emitted with at least one observation.
C9_NoOutputWithoutData ==
    /\ (ObjectOver /\ \A i \in 1..Len(AllRows) : ~UsableRow(AllRows[i])) =>
          /\ obj \notin written
          /\ status[obj] \in {"skipped_nodata", "skipped_empty"}
    /\ \A o \in written : status[o] = "emitted"
    /\ (obj \in written) =>
          /\ ObjectOver
          /\ Len(final_table) >= 1
          /\ \E i \in 1..Len(AllRows) : UsableRow(AllRows[i])

\* a file whose only rows carry a label outside the vocabulary: skipped
C9_Witness ==
    /\ ObjectOver
    /\ status[obj] = "skipped_empty"
    /\ obj \notin written
    /\ Len(AllRows) >= 1
    /\ \A i \in 1..Len(AllRows) : AllRows[i].band = <<"xyz">>

\* C10: a failure inside one object never aborts the batch: the driver goes
\* on with the remaining objects.
C10_BatchSurvivesFailure ==
    \A o \in 1..NumObjects : status[o] = "raised" => batch # "aborted"

\* the texts of a magnitude error that is a finite number
FiniteErrorText == {"0.1"}
\* the magnitude error of a normalized row is missing or not finite
NoFiniteError(r) == r.magerr \in {"nan", "inf", "-inf"}

\* C11: row by row, the flux error of the converted table is the sentinel
\* -999 when the row's magnitude error is missing or not finite, and is
\* otherwise the product of the row's own flux and its magnitude error; the
\* sentinel is never given to a row with a finite magnitude error.
C11_FluxErrorOrSentinel ==
    final_table # <<>> =>
        /\ Len(final_table) = Len(df)
        /\ \A i \in 1..Len(df) :
              /\ NoFiniteError(df[i]) =>
                    /\ final_table[i].fluxerr.sentinel
                    /\ final_table[i].fluxerr.magerr = "-999.0"
              /\ df[i].magerr \in FiniteErrorText =>
                    /\ ~final_table[i].fluxerr.sentinel
                    /\ final_table[i].fluxerr.flux = final_table[i].flux
                    /\ final_table[i].fluxerr.magerr = df[i].magerr
              /\ NoFiniteError(df[i]) \/ df[i].magerr \in FiniteErrorText
              /\ final_table[i].flux =
                    [zpsys |-> zp_system_str, band |-> df[i].band, mag |-> df[i].mag]

\* an emitted table with a finite magnitude error next to an infinite one
C11_Witness ==
    /\ pc = "idle" /\ obj > 0 /\ status[obj] = "emitted"
    /\ \E i \in 1..Len(df) :
          df[i].magerr = "0.1" /\ ~final_table[i].fluxerr.sentinel
    /\ \E i \in 1..Len(df) :
          df[i].magerr = "inf" /\ final_table[i].fluxerr.sentinel

\* the scenario's file: comma separated, with a time, a magnitude and a
\* band column and neither a magnitude error nor a reference column; the
\* cells rA and rE hold for those two columns are not in the file
C12File == [fmt |-> "csv", cols |-> CsvNoErrCols, rows |-> <<rA, rE>>]

\* C12: an object whose single file is the scenario's is parsed by
\* parse_csv into one table, and normalization and conversion in the Vega
\* system turn it into exactly one observation, of time 2430000.5, band
\* 'bessellb', the Vega flux of magnitude 12.3 in that band, magnitude error
\* -999 and the sentinel for the flux error.
C12_ScenarioOneObservation ==
    (pc = "files" /\ sn_info.files = 1 /\ fileIdx = 1 /\ curFile = C12File) =>
        /\ InvokedNames(invoked) = <<"parse_csv">>
        /\ warnings = 0
        /\ Len(photometry_tables) = 1
        /\ LET out == MapSeq(NormalizeTables(photometry_tables),
                             LAMBDA r : FluxRow(r, Lower("Vega")))
           IN  /\ Len(out) = 1
               /\ out[1].time = "2430000.5"
               /\ out[1].mag = "12.3"
               /\ out[1].band = <<"bessellb">>
               /\ out[1].flux =
                     [zpsys |-> "vega", band |-> <<"bessellb">>, mag |-> "12.3"]
               /\ out[1].magerr = "-999.0"
               /\ out[1].fluxerr.sentinel

\* the steps in the order the claim gives them: trim, drop the labels with
\* a parenthesis, deduplicate; then the aliases and the vocabulary
TrimDropDedup ==
    SelectSeq(MapSeq(DropDuplicates(DropParenRows(MapSeq(AllRows, StripBand))),
                     LAMBDA r : [r EXCEPT !.band = Aliased(r.band)]),
              LAMBDA r : InVocabulary(r.band))

\* C13: the normalized set is what trimming, then dropping the rows with a
\* parenthesised label, then deduplicating on (time, magnitude) leave: a
\* usable row preceded, among the rows of its (time, magnitude), only by
\* rows with a parenthesised label is retained.
C13_ParenRowNeverShadows ==
    NormalizationDone =>
        /\ df = TrimDropDedup
        /\ \A i \in 1..Len(AllRows) :
              (/\ UsableRow(AllRows[i])
               /\ \A j \in 1..(i - 1) :
                     SamePoint(AllRows[j], AllRows[i]) => HasParen(AllRows[j].band))
              => \E k \in 1..Len(df) :
                    /\ SamePoint(df[k], AllRows[i])
                    /\ df[k].band = Aliased(Trimmed(AllRows[i].band))
                    /\ df[k].reference = AllRows[i].reference

\* the flux conversion of the current object has completed
ConversionDone == final_table # <<>>

\* C14 as stated: at most one lookup per object, made only once both
\* normalization and flux conversion have completed; a failed lookup leaves
\* the object skipped with no output; no lookup for an object skipped as
\* empty.
C14_LookupAfterConversion ==
    /\ lookups <= 1
    /\ lookups = 1 => NormalizationDone /\ ConversionDone
    /\ (ObjectOver /\ status[obj] = "skipped_nometa") =>
          lookups = 1 /\ obj \notin written
    /\ (ObjectOver /\ status[obj] = "emitted") => lookups = 1
    /\ (ObjectOver /\ status[obj] = "skipped_empty") => lookups = 0

\* C14, amended: at most one lookup per object, made after normalization has
\* left at least one observation and before the flux conversion, which runs
\* only once the lookup has answered; a failed lookup leaves the object
\* skipped, with one lookup, no conversion and no output; no lookup for an
\* object skipped as empty or for want of data.
C14_LookupBeforeConversion ==
    /\ lookups <= 1
    /\ pc \in {"files", "normalized"} => lookups = 0 /\ ~ConversionDone
    /\ lookups = 1 => NormalizationDone /\ df # <<>>
    /\ pc = "metadata" => lookups = 1 /\ ~ConversionDone
    /\ ConversionDone => lookups = 1 /\ status[obj] # "skipped_nometa"
    /\ (ObjectOver /\ status[obj] = "skipped_nometa") =>
          lookups = 1 /\ ~ConversionDone /\ obj \notin written
    /\ (ObjectOver /\ status[obj] = "emitted") => lookups = 1
    /\ (ObjectOver /\ status[obj] \in {"skipped_empty", "skipped_nodata"}) =>
          lookups = 0

\* the lookup failed for a second object whose normalization left rows, after
\* a first object was emitted
C14_Witness ==
    /\ ObjectOver /\ obj = 2
    /\ status[1] = "emitted"
    /\ status[2] = "skipped_nometa"
    /\ lookups = 1
    /\ Len(df) >= 1
    /\ ~ConversionDone
    /\ written = {1}

====
